---- MODULE Spec2Model ----
(***************************************************************************)
(* The action-execution engine of the robot simulator                      *)
(* (src/src/core/engine/engine.ts), the Python bridge with its plan world  *)
(* (src/src/core/py/pyodide.ts) and the execution hook that drives both    *)
(* (src/src/ui/useExecution.ts).                                           *)
(*                                                                         *)
(* An optional value (a field that may be undefined, a function result     *)
(* that may be null) is a sequence of length 0 (absent) or 1 (present).    *)
(***************************************************************************)
EXTENDS Integers, Sequences, FiniteSets, TLC

None == <<>>
Some(v) == <<v>>

Last(s) == s[Len(s)]
Front(s) == SubSeq(s, 1, Len(s) - 1)

(***************************************************************************)
(* Bounds of the model.                                                    *)
(***************************************************************************)
\* actions enqueued on the engine since its last reset
MaxEnqueue == 3

(***************************************************************************)
(* types.ts, objectKinds.ts, errors.ts                                     *)
(***************************************************************************)
Direction == {"N", "E", "S", "W"}

\* The object kinds in the order JavaScript's < puts their names.
KindOrder == <<"apple", "banana", "carrot", "dandelion", "leaf", "token">>

ObjectKind == {KindOrder[i] : i \in 1..Len(KindOrder)}

KindRank(k) == CHOOSE i \in 1..Len(KindOrder) : KindOrder[i] = k

ActionType == {"move", "turnLeft", "put", "take", "buildWall", "done", "trace"}

EngineErrors == [OUT_OF_BOUNDS |-> "out_of_bounds",
                 BLOCKED_BY_WALL |-> "blocked_by_wall",
                 NO_OBJECT_HERE |-> "no_object_here",
                 NO_TOKEN_TO_PUT |-> "no_token_to_put",
                 NO_ITEM_TO_PUT |-> "no_item_to_put"]

(***************************************************************************)
(* Worlds.  A world is a record                                            *)
(*   [width, height, robot |-> [x, y, dir, token, inventory],              *)
(*    walls |-> sequence of [x, y, dir],                                   *)
(*    objects |-> sequence of [x, y, kind, count, goalMark, hidden,        *)
(*                             range],                                     *)
(*    goal]                                                                *)
(* robot.inventory is optional in the source (world.ts builds a robot      *)
(* without it, the loader one with an empty list).  Every world the        *)
(* program builds carries an objects array.  A stack's optional goalMark   *)
(* and hidden are only ever read as truth values and are booleans here;    *)
(* its optional range is the [min, max] the loader drew the count from.    *)
(***************************************************************************)
Wall(x, y, dir) == [x |-> x, y |-> y, dir |-> dir]

Stack(x, y, kind, count, goalMark) ==
  [x |-> x, y |-> y, kind |-> kind, count |-> count, goalMark |-> goalMark,
   hidden |-> FALSE, range |-> None]

\* a stack whose count the loader drew from the range min..max: hidden
\* until revealed
HiddenStack(x, y, kind, count, min, max) ==
  [Stack(x, y, kind, count, FALSE) EXCEPT
     !.hidden = TRUE, !.range = Some([min |-> min, max |-> max])]

\* Goal of types.ts: every clause is optional.  A goal position's x and y
\* need not be whole, so they are counted in halves (Whole(2) is 2).
Goal(objects, walls, position, possible_final_positions) ==
  [objects |-> objects, walls |-> walls, position |-> position,
   possible_final_positions |-> possible_final_positions]

Position(x, y, orientation) == [x |-> x, y |-> y, orientation |-> orientation]

Whole(n) == 2 * n

\* Math.floor of a number counted in halves
Floor(q) == q \div 2

\* a world without a goal
MkWorld(width, height, x, y, dir, inventory, walls, objects) ==
  [width |-> width, height |-> height,
   robot |-> [x |-> x, y |-> y, dir |-> dir, token |-> 0, inventory |-> inventory],
   walls |-> walls, objects |-> objects, goal |-> None]

\* the same world with a goal
WithGoal(w, goal) == [w EXCEPT !.goal = Some(goal)]

\* createDefaultWorld(width, height): robot at (1,1) facing East, no inventory field
createDefaultWorld(width, height) ==
  MkWorld(width, height, 1, 1, "E", None, <<>>, <<>>)

\* JSON.parse(JSON.stringify(world)): a fresh value with the same numbers,
\* strings, booleans and arrays; an undefined field stays absent.
cloneWorld(w) ==
  [width |-> w.width, height |-> w.height,
   robot |-> [x |-> w.robot.x, y |-> w.robot.y, dir |-> w.robot.dir,
              token |-> w.robot.token,
              inventory |-> IF w.robot.inventory = None THEN None
                            ELSE Some([i \in 1..Len(w.robot.inventory[1]) |->
                                         w.robot.inventory[1][i]])],
   walls |-> [i \in 1..Len(w.walls) |->
                [x |-> w.walls[i].x, y |-> w.walls[i].y, dir |-> w.walls[i].dir]],
   objects |-> [i \in 1..Len(w.objects) |->
                  [x |-> w.objects[i].x, y |-> w.objects[i].y,
                   kind |-> w.objects[i].kind, count |-> w.objects[i].count,
                   goalMark |-> w.objects[i].goalMark,
                   hidden |-> w.objects[i].hidden,
                   range |-> w.objects[i].range]],
   goal |-> w.goal]

(***************************************************************************)
(* The worlds an engine is created with or reset to.                       *)
(***************************************************************************)
\* an empty 3 x 2 grid as createDefaultWorld builds it
WorldOpen == createDefaultWorld(3, 2)

\* robot at (1,1) facing East; the walls ahead (East) and to the left (North)
\* are recorded only on the neighbouring cells
WorldFarWallsNE ==
  MkWorld(2, 2, 1, 1, "E", Some(<<>>),
          <<Wall(2, 1, "W"), Wall(1, 2, "S")>>, <<>>)

\* robot at (2,2) facing West; the walls ahead (West) and to the left (South)
\* are recorded only on the neighbouring cells
WorldFarWallsSW ==
  MkWorld(2, 2, 2, 2, "W", Some(<<>>),
          <<Wall(1, 2, "E"), Wall(2, 1, "N")>>, <<>>)

\* robot on a cell with three stacks (one goal-marked), one item carried;
\* the goal is to stand on the cell ahead
WorldObjects ==
  WithGoal(MkWorld(2, 1, 1, 1, "E", Some(<<"leaf">>), <<>>,
                   <<Stack(1, 1, "carrot", 1, FALSE), Stack(1, 1, "apple", 2, FALSE),
                     Stack(1, 1, "banana", 1, TRUE), HiddenStack(2, 1, "token", 1, 1, 2)>>),
           Goal(None, None, Some(Position(Whole(2), Whole(1), None)), None))

\* robot with nothing carried on a cell with two stacks
WorldPickup ==
  MkWorld(2, 1, 1, 1, "E", Some(<<>>), <<>>,
          <<Stack(1, 1, "carrot", 2, FALSE), Stack(1, 1, "apple", 1, FALSE)>>)

InitWorlds == {WorldOpen, WorldFarWallsNE, WorldFarWallsSW, WorldObjects}

\* the worlds reset(next) is given
ResetWorlds == {WorldOpen, WorldObjects, WorldPickup}

\* the worlds the application changes to
ChangedWorlds == {WorldOpen, WorldObjects}

(***************************************************************************)
(* engine.ts: helpers                                                      *)
(***************************************************************************)
turnLeft(dir) ==
  CASE dir = "N" -> "W"
    [] dir = "W" -> "S"
    [] dir = "S" -> "E"
    [] dir = "E" -> "N"

deltaFor(dir) ==
  CASE dir = "N" -> [dx |-> 0, dy |-> 1]
    [] dir = "E" -> [dx |-> 1, dy |-> 0]
    [] dir = "S" -> [dx |-> 0, dy |-> -1]
    [] dir = "W" -> [dx |-> -1, dy |-> 0]

hasWallAt(w, x, y, dir) ==
  \E i \in 1..Len(w.walls) :
    w.walls[i].x = x /\ w.walls[i].y = y /\ w.walls[i].dir = dir

\* isBlockedByWall looking only at the robot's own cell
isBlockedByWall_NearOnly(w, x, y, dir) == hasWallAt(w, x, y, dir)

isBlockedByWall(w, x, y, dir) ==
  CASE dir = "N" -> hasWallAt(w, x, y, "N") \/ hasWallAt(w, x, y + 1, "S")
    [] dir = "E" -> hasWallAt(w, x, y, "E") \/ hasWallAt(w, x + 1, y, "W")
    [] dir = "S" -> hasWallAt(w, x, y, "S") \/ hasWallAt(w, x, y - 1, "N")
    [] dir = "W" -> hasWallAt(w, x, y, "W") \/ hasWallAt(w, x - 1, y, "E")

\* the sequence s without its i-th element (Array.prototype.splice(i, 1))
Splice(s, i) == SubSeq(s, 1, i - 1) \o SubSeq(s, i + 1, Len(s))

objectsAt(w, x, y) ==
  LET Here(o) == o.x = x /\ o.y = y IN SelectSeq(w.objects, Here)

\* decrementObjectOfKindAt leaving a stack that reached 0 in place
decrementObjectOfKindAt_KeepsEmpty(w, x, y, kind) ==
  LET hits == {i \in 1..Len(w.objects) :
                 /\ w.objects[i].x = x /\ w.objects[i].y = y
                 /\ w.objects[i].kind = kind /\ w.objects[i].count > 0}
  IN IF hits = {} THEN w.objects
     ELSE LET i == CHOOSE i \in hits : \A j \in hits : i <= j
          IN [w.objects EXCEPT ![i].count = @ - 1]

\* The objects after one unit of `kind` is taken from the first stack of that
\* kind at (x,y) with count > 0; a stack that reaches 0 is removed.
decrementObjectOfKindAt(w, x, y, kind) ==
  LET hits == {i \in 1..Len(w.objects) :
                 /\ w.objects[i].x = x /\ w.objects[i].y = y
                 /\ w.objects[i].kind = kind /\ w.objects[i].count > 0}
  IN IF hits = {} THEN w.objects
     ELSE LET i == CHOOSE i \in hits : \A j \in hits : i <= j
          IN IF w.objects[i].count - 1 = 0 THEN Splice(w.objects, i)
             ELSE [w.objects EXCEPT ![i].count = @ - 1]

\* The objects after one unit of `kind` is added at (x,y): on the first stack
\* of that kind there, or on a new stack pushed at the end.
incrementObjectKindAt(w, x, y, kind) ==
  LET hits == {i \in 1..Len(w.objects) :
                 /\ w.objects[i].x = x /\ w.objects[i].y = y
                 /\ w.objects[i].kind = kind}
  IN IF hits = {} THEN Append(w.objects, Stack(x, y, kind, 1, FALSE))
     ELSE LET i == CHOOSE i \in hits : \A j \in hits : i <= j
          IN [w.objects EXCEPT ![i].count = @ + 1]

\* the comparator without the goal mark
TakeBefore_KindOnly(a, b) == KindRank(a.kind) < KindRank(b.kind)

\* The comparator of pickKindToTakeAt's sort: a goes before b.
TakeBefore(a, b) ==
  LET ga == IF a.goalMark THEN 1 ELSE 0
      gb == IF b.goalMark THEN 1 ELSE 0
  IN IF ga # gb THEN gb - ga < 0
     ELSE KindRank(a.kind) < KindRank(b.kind)

\* The kind of the first stack after the (stable) sort, or null.
pickKindToTakeAt(w, x, y) ==
  LET Positive(o) == o.count > 0
      here == SelectSeq(objectsAt(w, x, y), Positive)
  IN IF Len(here) = 0 THEN None
     ELSE LET i == CHOOSE i \in 1..Len(here) :
                     \A j \in 1..Len(here) :
                       /\ ~TakeBefore(here[j], here[i])
                       /\ (j < i => TakeBefore(here[i], here[j]))
          IN Some(here[i].kind)

(***************************************************************************)
(* engine.ts: the transition rules (handlers).  Each gives                 *)
(* [ok, reason, world]: the handler's result and the world it leaves.      *)
(***************************************************************************)
Ok(w) == [ok |-> TRUE, reason |-> None, world |-> w]
Fail(code, w) == [ok |-> FALSE, reason |-> Some(code), world |-> w]

\* handlerMove without the test of the grid's bounds
handlerMove_NoBounds(w) ==
  LET d == deltaFor(w.robot.dir)
      nx == w.robot.x + d.dx
      ny == w.robot.y + d.dy
  IN IF isBlockedByWall(w, w.robot.x, w.robot.y, w.robot.dir)
       THEN Fail(EngineErrors.BLOCKED_BY_WALL, w)
     ELSE Ok([w EXCEPT !.robot.x = nx, !.robot.y = ny])

\* handlerMove moving the robot before the wall check
handlerMove_MovesFirst(w) ==
  LET d == deltaFor(w.robot.dir)
      nx == w.robot.x + d.dx
      ny == w.robot.y + d.dy
      moved == [w EXCEPT !.robot.x = nx, !.robot.y = ny]
  IN IF nx < 1 \/ ny < 1 \/ nx > w.width \/ ny > w.height
       THEN Fail(EngineErrors.OUT_OF_BOUNDS, w)
     ELSE IF isBlockedByWall(w, w.robot.x, w.robot.y, w.robot.dir)
       THEN Fail(EngineErrors.BLOCKED_BY_WALL, moved)
     ELSE Ok(moved)

handlerMove(w) ==
  LET d == deltaFor(w.robot.dir)
      nx == w.robot.x + d.dx
      ny == w.robot.y + d.dy
  IN IF nx < 1 \/ ny < 1 \/ nx > w.width \/ ny > w.height
       THEN Fail(EngineErrors.OUT_OF_BOUNDS, w)
     ELSE IF isBlockedByWall(w, w.robot.x, w.robot.y, w.robot.dir)
       THEN Fail(EngineErrors.BLOCKED_BY_WALL, w)
     ELSE Ok([w EXCEPT !.robot.x = nx, !.robot.y = ny])

handlerBuildWall(w) ==
  LET wx == w.robot.x
      wy == w.robot.y
      wd == w.robot.dir
      exists == \E i \in 1..Len(w.walls) :
                  w.walls[i].x = wx /\ w.walls[i].y = wy /\ w.walls[i].dir = wd
  IN IF ~exists THEN Ok([w EXCEPT !.walls = Append(@, Wall(wx, wy, wd))])
     ELSE Ok(w)

handlerTurnLeft(w) == Ok([w EXCEPT !.robot.dir = turnLeft(@)])

\* take that leaves the stack as it was
handlerTake_NoDecrement(w) ==
  LET kind == pickKindToTakeAt(w, w.robot.x, w.robot.y)
  IN IF kind = None THEN Fail(EngineErrors.NO_OBJECT_HERE, w)
     ELSE LET inv == IF w.robot.inventory = None THEN <<>> ELSE w.robot.inventory[1]
          IN Ok([w EXCEPT !.robot.inventory = Some(Append(inv, kind[1]))])

handlerTake(w) ==
  LET kind == pickKindToTakeAt(w, w.robot.x, w.robot.y)
  IN IF kind = None THEN Fail(EngineErrors.NO_OBJECT_HERE, w)
     ELSE LET objs == decrementObjectOfKindAt(w, w.robot.x, w.robot.y, kind[1])
              inv == IF w.robot.inventory = None THEN <<>> ELSE w.robot.inventory[1]
          IN Ok([w EXCEPT !.objects = objs,
                          !.robot.inventory = Some(Append(inv, kind[1]))])

\* put dropping the newest pickup instead of the oldest
handlerPut_Lifo(w) ==
  IF w.robot.inventory = None \/ Len(w.robot.inventory[1]) = 0
    THEN Fail(EngineErrors.NO_ITEM_TO_PUT, w)
  ELSE LET kind == Last(w.robot.inventory[1])
           w1 == [w EXCEPT !.robot.inventory = Some(Front(@[1]))]
       IN Ok([w1 EXCEPT !.objects =
                 incrementObjectKindAt(w1, w1.robot.x, w1.robot.y, kind)])

handlerPut(w) ==
  IF w.robot.inventory = None \/ Len(w.robot.inventory[1]) = 0
    THEN Fail(EngineErrors.NO_ITEM_TO_PUT, w)
  ELSE LET kind == Head(w.robot.inventory[1])
           w1 == [w EXCEPT !.robot.inventory = Some(Tail(@[1]))]
       IN Ok([w1 EXCEPT !.objects =
                 incrementObjectKindAt(w1, w1.robot.x, w1.robot.y, kind)])

\* done empties the queue (see step); trace is a no-op
handlerDone(w) == Ok(w)

handlerTrace(w) == Ok(w)

handlers(type, w) ==
  CASE type = "move" -> handlerMove(w)
    [] type = "buildWall" -> handlerBuildWall(w)
    [] type = "done" -> handlerDone(w)
    [] type = "trace" -> handlerTrace(w)
    [] type = "turnLeft" -> handlerTurnLeft(w)
    [] type = "take" -> handlerTake(w)
    [] type = "put" -> handlerPut(w)
    [] OTHER -> Fail("unknown_action", w)

(***************************************************************************)
(* engine.ts: createEngine.  The engine's state is the record              *)
(*   [world, queue, executed, stepCounter, initialWorld]                   *)
(* and each operation gives [eng, ret]: the state it leaves and what it    *)
(* returns.  An action is [type, message, id, run]: message is "" except   *)
(* for trace; id and run stand for the identity of the action object: its  *)
(* rank among the actions enqueued since the last reset, and the script    *)
(* run that enqueued it (0 for a direct call of enqueue).                  *)
(***************************************************************************)
Action(type, message, id, run) ==
  [type |-> type, message |-> message, id |-> id, run |-> run]

\* enqueue putting the action in front of the pending ones
enqueue_Front(E, action) ==
  [eng |-> [E EXCEPT !.queue = <<action>> \o @], ret |-> None]

enqueue(E, action) ==
  [eng |-> [E EXCEPT !.queue = Append(@, action)], ret |-> None]

\* handlers.done leaving the queue alone
QueueAfter_Keep(type, rest) == rest

\* the queue the handler of `type` leaves, given the queue after shift()
QueueAfter(type, rest) == IF type = "done" THEN <<>> ELSE rest

\* step taking the newest pending action (pop) instead of the oldest (shift)
step_Pop(E) ==
  IF E.queue = <<>> THEN [eng |-> E, ret |-> None]
  ELSE LET action == Last(E.queue)
           before == cloneWorld(E.world)
           res == handlers(action.type, E.world)
           after == IF res.ok THEN Some(cloneWorld(res.world)) ELSE None
           event == [step |-> E.stepCounter + 1, action |-> action,
                     before |-> before, after |-> after,
                     ok |-> res.ok, reason |-> res.reason]
       IN [eng |-> [E EXCEPT !.world = res.world,
                             !.queue = QueueAfter(action.type, Front(E.queue)),
                             !.stepCounter = E.stepCounter + 1,
                             !.executed = Append(@, event)],
           ret |-> Some(event)]

step(E) ==
  IF E.queue = <<>> THEN [eng |-> E, ret |-> None]
  ELSE LET action == Head(E.queue)
           before == cloneWorld(E.world)
           res == handlers(action.type, E.world)
           after == IF res.ok THEN Some(cloneWorld(res.world)) ELSE None
           event == [step |-> E.stepCounter + 1, action |-> action,
                     before |-> before, after |-> after,
                     ok |-> res.ok, reason |-> res.reason]
       IN [eng |-> [E EXCEPT !.world = res.world,
                             !.queue = QueueAfter(action.type, Tail(E.queue)),
                             !.stepCounter = E.stepCounter + 1,
                             !.executed = Append(@, event)],
           ret |-> Some(event)]

\* stepPrev appending the undone action at the back of the queue
stepPrev_Push(E) ==
  IF E.executed = <<>> THEN [eng |-> E, ret |-> None]
  ELSE LET last == Last(E.executed)
           w == cloneWorld(last.before)
       IN [eng |-> [E EXCEPT !.executed = Front(@),
                             !.world = w,
                             !.queue = Append(@, last.action),
                             !.stepCounter = IF @ - 1 > 0 THEN @ - 1 ELSE 0],
           ret |-> Some(cloneWorld(w))]

\* stepPrev undoing the oldest event of the history instead of the newest
stepPrev_Shift(E) ==
  IF E.executed = <<>> THEN [eng |-> E, ret |-> None]
  ELSE LET last == Head(E.executed)
           w == cloneWorld(last.before)
       IN [eng |-> [E EXCEPT !.executed = Tail(@),
                             !.world = w,
                             !.queue = <<last.action>> \o @,
                             !.stepCounter = IF @ - 1 > 0 THEN @ - 1 ELSE 0],
           ret |-> Some(cloneWorld(w))]

\* stepPrev leaving the step counter as it is
stepPrev_KeepsCounter(E) ==
  IF E.executed = <<>> THEN [eng |-> E, ret |-> None]
  ELSE LET last == Last(E.executed)
           w == cloneWorld(last.before)
       IN [eng |-> [E EXCEPT !.executed = Front(@),
                             !.world = w,
                             !.queue = <<last.action>> \o @],
           ret |-> Some(cloneWorld(w))]

stepPrev(E) ==
  IF E.executed = <<>> THEN [eng |-> E, ret |-> None]
  ELSE LET last == Last(E.executed)
           w == cloneWorld(last.before)
       IN [eng |-> [E EXCEPT !.executed = Front(@),
                             !.world = w,
                             !.queue = <<last.action>> \o @,
                             !.stepCounter = IF @ - 1 > 0 THEN @ - 1 ELSE 0],
           ret |-> Some(cloneWorld(w))]

\* reset forgetting to clear the history
reset_KeepsHistory(E, next) ==
  [eng |-> [E EXCEPT !.world = cloneWorld(IF next = None THEN E.initialWorld
                                          ELSE next[1]),
                     !.stepCounter = 0,
                     !.queue = <<>>],
   ret |-> None]

\* next is optional: reset() falls back on the world the engine was created with
reset(E, next) ==
  [eng |-> [E EXCEPT !.world = cloneWorld(IF next = None THEN E.initialWorld
                                          ELSE next[1]),
                     !.stepCounter = 0,
                     !.queue = <<>>,
                     !.executed = <<>>],
   ret |-> None]

getState(E) == cloneWorld(E.world)

(***************************************************************************)
(* pyodide.ts: createPyBridge.  The bridge keeps its own copies of the     *)
(* engine's helpers, applied to the plan world.                            *)
(***************************************************************************)
pyTurnLeft(dir) ==
  CASE dir = "N" -> "W"
    [] dir = "W" -> "S"
    [] dir = "S" -> "E"
    [] dir = "E" -> "N"

pyDeltaFor(dir) ==
  CASE dir = "N" -> [dx |-> 0, dy |-> 1]
    [] dir = "E" -> [dx |-> 1, dy |-> 0]
    [] dir = "S" -> [dx |-> 0, dy |-> -1]
    [] dir = "W" -> [dx |-> -1, dy |-> 0]

pyHasWallAt(w, x, y, dir) ==
  \E i \in 1..Len(w.walls) :
    w.walls[i].x = x /\ w.walls[i].y = y /\ w.walls[i].dir = dir

pyIsBlockedByWall(w, x, y, dir) ==
  CASE dir = "N" -> pyHasWallAt(w, x, y, "N") \/ pyHasWallAt(w, x, y + 1, "S")
    [] dir = "E" -> pyHasWallAt(w, x, y, "E") \/ pyHasWallAt(w, x + 1, y, "W")
    [] dir = "S" -> pyHasWallAt(w, x, y, "S") \/ pyHasWallAt(w, x, y - 1, "N")
    [] dir = "W" -> pyHasWallAt(w, x, y, "W") \/ pyHasWallAt(w, x - 1, y, "E")

pyHasRightWall(w, x, y, dir) ==
  CASE dir = "N" -> pyHasWallAt(w, x, y, "E") \/ pyHasWallAt(w, x + 1, y, "W")
    [] dir = "E" -> pyHasWallAt(w, x, y, "S") \/ pyHasWallAt(w, x, y - 1, "N")
    [] dir = "S" -> pyHasWallAt(w, x, y, "W") \/ pyHasWallAt(w, x - 1, y, "E")
    [] dir = "W" -> pyHasWallAt(w, x, y, "N") \/ pyHasWallAt(w, x, y + 1, "S")

pyObjectsAt(w, x, y) ==
  LET Here(o) == o.x = x /\ o.y = y IN SelectSeq(w.objects, Here)

pyDecrementObjectOfKindAt(w, x, y, kind) ==
  LET hits == {i \in 1..Len(w.objects) :
                 /\ w.objects[i].x = x /\ w.objects[i].y = y
                 /\ w.objects[i].kind = kind /\ w.objects[i].count > 0}
  IN IF hits = {} THEN w.objects
     ELSE LET i == CHOOSE i \in hits : \A j \in hits : i <= j
          IN IF w.objects[i].count - 1 = 0 THEN Splice(w.objects, i)
             ELSE [w.objects EXCEPT ![i].count = @ - 1]

pyIncrementObjectKindAt(w, x, y, kind) ==
  LET hits == {i \in 1..Len(w.objects) :
                 /\ w.objects[i].x = x /\ w.objects[i].y = y
                 /\ w.objects[i].kind = kind}
  IN IF hits = {} THEN Append(w.objects, Stack(x, y, kind, 1, FALSE))
     ELSE LET i == CHOOSE i \in hits : \A j \in hits : i <= j
          IN [w.objects EXCEPT ![i].count = @ + 1]

pyTakeBefore(a, b) ==
  LET ga == IF a.goalMark THEN 1 ELSE 0
      gb == IF b.goalMark THEN 1 ELSE 0
  IN IF ga # gb THEN gb - ga < 0
     ELSE KindRank(a.kind) < KindRank(b.kind)

pyPickKindToTakeAt(w, x, y) ==
  LET Positive(o) == o.count > 0
      here == SelectSeq(pyObjectsAt(w, x, y), Positive)
  IN IF Len(here) = 0 THEN None
     ELSE LET i == CHOOSE i \in 1..Len(here) :
                     \A j \in 1..Len(here) :
                       /\ ~pyTakeBefore(here[j], here[i])
                       /\ (j < i => pyTakeBefore(here[i], here[j]))
          IN Some(here[i].kind)

(***************************************************************************)
(* pyodide.ts: enqueue_action.  What each branch does to the plan world.   *)
(***************************************************************************)
\* planMove with the east bound off by one
planMove_OffByOne(pw) ==
  LET d == pyDeltaFor(pw.robot.dir)
      nx == pw.robot.x + d.dx
      ny == pw.robot.y + d.dy
  IN IF /\ nx >= 1 /\ ny >= 1 /\ nx < pw.width /\ ny <= pw.height
        /\ ~pyIsBlockedByWall(pw, pw.robot.x, pw.robot.y, pw.robot.dir)
       THEN [pw EXCEPT !.robot.x = nx, !.robot.y = ny]
     ELSE pw

planMove(pw) ==
  LET d == pyDeltaFor(pw.robot.dir)
      nx == pw.robot.x + d.dx
      ny == pw.robot.y + d.dy
  IN IF /\ nx >= 1 /\ ny >= 1 /\ nx <= pw.width /\ ny <= pw.height
        /\ ~pyIsBlockedByWall(pw, pw.robot.x, pw.robot.y, pw.robot.dir)
       THEN [pw EXCEPT !.robot.x = nx, !.robot.y = ny]
     ELSE pw

planTurnLeft(pw) == [pw EXCEPT !.robot.dir = pyTurnLeft(@)]

planPut(pw) ==
  LET inv == IF pw.robot.inventory = None THEN <<>> ELSE pw.robot.inventory[1]
  IN IF Len(inv) > 0
       THEN LET kind == Head(inv)
                w1 == [pw EXCEPT !.robot.inventory = Some(Tail(inv))]
            IN [w1 EXCEPT !.objects =
                  pyIncrementObjectKindAt(w1, w1.robot.x, w1.robot.y, kind)]
     ELSE pw

planTake(pw) ==
  LET kind == pyPickKindToTakeAt(pw, pw.robot.x, pw.robot.y)
  IN IF kind # None
       THEN LET objs == pyDecrementObjectOfKindAt(pw, pw.robot.x, pw.robot.y, kind[1])
                inv == IF pw.robot.inventory = None THEN <<>>
                       ELSE pw.robot.inventory[1]
            IN [pw EXCEPT !.objects = objs,
                          !.robot.inventory = Some(Append(inv, kind[1]))]
     ELSE pw

planBuildWall(pw) ==
  LET wx == pw.robot.x
      wy == pw.robot.y
      wd == pw.robot.dir
      exists == \E i \in 1..Len(pw.walls) :
                  pw.walls[i].x = wx /\ pw.walls[i].y = wy /\ pw.walls[i].dir = wd
  IN IF ~exists THEN [pw EXCEPT !.walls = Append(@, Wall(wx, wy, wd))]
     ELSE pw

\* the plan world after enqueue_action(type); done leaves it alone
planRule(type, pw) ==
  CASE type = "move" -> planMove(pw)
    [] type = "turnLeft" -> planTurnLeft(pw)
    [] type = "put" -> planPut(pw)
    [] type = "take" -> planTake(pw)
    [] type = "buildWall" -> planBuildWall(pw)
    [] OTHER -> pw

EnqueueTypes == {"move", "turnLeft", "put", "take", "done", "buildWall"}

(***************************************************************************)
(* The bridge's state is [initialized, paceMs, planWorld]; planWorld is    *)
(* optional.  Its operations give [eng, bridge, ret].  `id` and `run` tag  *)
(* the action the call enqueues.                                           *)
(***************************************************************************)
\* enqueue_action(type): enqueue the action, then apply the rule to the plan
\* world if there is one; an unknown type does nothing
enqueue_action(E, B, type, id, run) ==
  IF type \in EnqueueTypes
    THEN [eng |-> enqueue(E, Action(type, "", id, run)).eng,
          bridge |-> [B EXCEPT !.planWorld =
                        IF @ # None THEN Some(planRule(type, @[1])) ELSE None],
          ret |-> None]
  ELSE [eng |-> E, bridge |-> B, ret |-> None]

\* set_pace(ms): n = ms * 5; a finite n >= 0 is kept, anything else gives 10
set_pace(E, B, ms) ==
  LET n == ms * 5
  IN [eng |-> E,
      bridge |-> [B EXCEPT !.paceMs = IF n >= 0 THEN n ELSE 10],
      ret |-> None]

\* a sensor that reads the committed world although a plan world is active
SensedWorld_Committed(E, B) == getState(E)

\* the world a sensor reads: planWorld ?? engineRef.getState()
SensedWorld(E, B) == IF B.planWorld # None THEN B.planWorld[1] ELSE getState(E)

SensorMessage(name, res) ==
  CASE name = "wall_in_front" ->
         (IF res THEN "wall_in_front() -> true" ELSE "wall_in_front() -> false")
    [] name = "wall_on_right" ->
         (IF res THEN "wall_on_right() -> true" ELSE "wall_on_right() -> false")
    [] name = "object_here" ->
         (IF res THEN "object_here() -> true" ELSE "object_here() -> false")
    [] name = "at_goal" ->
         (IF res THEN "at_goal() -> true" ELSE "at_goal() -> false")

\* a sensor's result, then the trace action that records it
Sensed(E, B, name, res, id, run) ==
  [eng |-> enqueue(E, Action("trace", SensorMessage(name, res), id, run)).eng,
   bridge |-> B,
   ret |-> Some(res)]

wall_in_front(E, B, id, run) ==
  LET w == SensedWorld(E, B)
  IN Sensed(E, B, "wall_in_front",
            pyIsBlockedByWall(w, w.robot.x, w.robot.y, w.robot.dir), id, run)

wall_on_right(E, B, id, run) ==
  LET w == SensedWorld(E, B)
  IN Sensed(E, B, "wall_on_right",
            pyHasRightWall(w, w.robot.x, w.robot.y, w.robot.dir), id, run)

object_here(E, B, id, run) ==
  LET w == SensedWorld(E, B)
      Here(o) == o.x = w.robot.x /\ o.y = w.robot.y
      here == SelectSeq(w.objects, Here)
  IN Sensed(E, B, "object_here",
            \E i \in 1..Len(here) : here[i].count > 0, id, run)

\* at_goal(): false without a goal position, else the robot stands on the
\* cell of the floored goal coordinates; the goal's orientation is not read
at_goal(E, B, id, run) ==
  LET w == SensedWorld(E, B)
      gp == IF w.goal = None THEN None ELSE w.goal[1].position
  IN Sensed(E, B, "at_goal",
            /\ gp # None
            /\ w.robot.x = Floor(gp[1].x)
            /\ w.robot.y = Floor(gp[1].y), id, run)

SensorNames == {"wall_in_front", "wall_on_right", "object_here", "at_goal"}

\* the primitives a script calls: the Python wrappers of enqueue_action
\* (move, turn_left, put, take, done, build_wall), the sensors and think(ms)
Primitive(E, B, call, id, run) ==
  CASE call.name \in EnqueueTypes -> enqueue_action(E, B, call.name, id, run)
    [] call.name = "wall_in_front" -> wall_in_front(E, B, id, run)
    [] call.name = "wall_on_right" -> wall_on_right(E, B, id, run)
    [] call.name = "object_here" -> object_here(E, B, id, run)
    [] call.name = "at_goal" -> at_goal(E, B, id, run)
    [] call.name = "think" -> set_pace(E, B, call.ms)

Call(name) == [name |-> name, ms |-> 0]

Think(ms) == [name |-> "think", ms |-> ms]

\* runUserCode up to the await: the pace is reset and the plan world cloned
\* from the committed world (the caller has checked `initialized`)
runUserCode(E, B) ==
  [B EXCEPT !.paceMs = 1, !.planWorld = Some(cloneWorld(getState(E)))]

(***************************************************************************)
(* State                                                                   *)
(***************************************************************************)
VARIABLES
  world,         \* engine: the committed world
  queue,         \* engine: pending actions
  executed,      \* engine: history of trace events
  stepCounter,   \* engine: step counter
  initialWorld,  \* engine: the world createEngine was given
  nextId,        \* the id the next enqueued action gets
  returned,      \* the last engine call and what it returned
  initialized,   \* bridge: init() has completed
  paceMs,        \* bridge: the playback pace
  planWorld,     \* bridge: the plan world (optional)
  script,        \* the script of the current run: "idle", "running", "finished"
  worldProp,     \* hook: the world the hook was rendered with
  ui,            \* hook: the React state (robot, objects, walls, status, ...)
  runTimerRef,   \* hook: the interval timer the hook remembers (optional)
  timers,        \* the interval timers that have been set and not cleared
  tasks,         \* the handleRun / handleNext invocations suspended at an await
  epoch,         \* the number of runs, resets and world changes requested
  caller,        \* the handler or callback that acted last, and its run
  listeners,     \* engine: the subscribed listeners, in insertion order
  notified,      \* the listener calls made during the last step()
  document,      \* builder: the document loaded last (optional)
  built,         \* builder: the world loadReeborgWorld returned (optional)
  evaluated,     \* goal evaluator: the last call and its result (optional)
  enqueuedAt,    \* for each action of the run, the pace when it was enqueued
  playbackPace   \* the delay the playback timer was set with (optional)

engineVars == <<world, queue, executed, stepCounter, initialWorld>>

bridgeVars == <<initialized, paceMs, planWorld, script>>

hookVars == <<worldProp, ui, runTimerRef, timers, tasks, epoch, caller>>

listenerVars == <<listeners, notified>>

builderVars == <<document, built>>

goalVars == <<evaluated>>

paceVars == <<enqueuedAt, playbackPace>>

vars == <<world, queue, executed, stepCounter, initialWorld, nextId, returned,
          initialized, paceMs, planWorld, script,
          worldProp, ui, runTimerRef, timers, tasks, epoch, caller,
          listeners, notified, document, built, evaluated,
          enqueuedAt, playbackPace>>

Eng == [world |-> world, queue |-> queue, executed |-> executed,
        stepCounter |-> stepCounter, initialWorld |-> initialWorld]

SetEng(E) ==
  /\ world' = E.world
  /\ queue' = E.queue
  /\ executed' = E.executed
  /\ stepCounter' = E.stepCounter
  /\ initialWorld' = E.initialWorld

Br == [initialized |-> initialized, paceMs |-> paceMs, planWorld |-> planWorld]

SetBr(B) ==
  /\ initialized' = B.initialized
  /\ paceMs' = B.paceMs
  /\ planWorld' = B.planWorld

Returned(op, val) == [op |-> op, val |-> val]

\* useExecution.ts 15-21: the React state of the first render.  The status
\* text is world.description or the default text; both are "description".
UiOf(w) ==
  [robot |-> w.robot, objects |-> w.objects, walls |-> w.walls,
   status |-> "description", statusKind |-> "info",
   currentStep |-> 0, reverseTurn |-> FALSE]

Caller(handler, run) == [handler |-> handler, run |-> run]

\* createEngine(initialWorld), createPyBridge(), the first render of the hook
Init ==
  /\ initialWorld \in InitWorlds
  /\ world = cloneWorld(initialWorld)
  /\ stepCounter = 0
  /\ queue = <<>>
  /\ executed = <<>>
  /\ nextId = 1
  /\ returned = Returned("createEngine", None)
  /\ initialized = FALSE
  /\ paceMs = 1
  /\ planWorld = None
  /\ script = "idle"
  /\ worldProp = initialWorld
  /\ ui = UiOf(initialWorld)
  /\ runTimerRef = None
  /\ timers = {}
  /\ tasks = {}
  /\ epoch = 0
  /\ caller = Caller("render", 0)
  /\ listeners = <<>>
  /\ notified = <<>>
  /\ document = None
  /\ built = None
  /\ evaluated = None
  /\ enqueuedAt = <<>>
  /\ playbackPace = None

(***************************************************************************)
(* The engine called directly: any interleaving of its operations.         *)
(***************************************************************************)
TraceMessages == {"note"}

Enqueue ==
  /\ nextId <= MaxEnqueue
  /\ \E type \in ActionType :
       \E message \in (IF type = "trace" THEN TraceMessages ELSE {""}) :
         LET r == enqueue(Eng, Action(type, message, nextId, 0))
         IN SetEng(r.eng) /\ returned' = Returned("enqueue", r.ret)
  /\ nextId' = nextId + 1
  /\ UNCHANGED <<bridgeVars, hookVars, listenerVars, builderVars, goalVars, paceVars>>

Step ==
  LET r == step(Eng)
  IN /\ SetEng(r.eng) /\ returned' = Returned("step", r.ret) /\ nextId' = nextId
     /\ UNCHANGED <<bridgeVars, hookVars, listenerVars, builderVars, goalVars, paceVars>>

StepPrev ==
  LET r == stepPrev(Eng)
  IN /\ SetEng(r.eng) /\ returned' = Returned("stepPrev", r.ret) /\ nextId' = nextId
     /\ UNCHANGED <<bridgeVars, hookVars, listenerVars, builderVars, goalVars, paceVars>>

Reset ==
  /\ \E next \in {None} \cup {Some(w) : w \in ResetWorlds} :
       LET r == reset(Eng, next)
       IN SetEng(r.eng) /\ returned' = Returned("reset", next) /\ nextId' = 1
  /\ UNCHANGED <<bridgeVars, hookVars, listenerVars, builderVars, goalVars, paceVars>>

Next == Enqueue \/ Step \/ StepPrev \/ Reset

Spec == Init /\ [][Next]_vars

(***************************************************************************)
(* The engine with subscribers.  `listeners` is a JavaScript Set: a        *)
(* listener is in it at most once and `for (const l of listeners)` visits  *)
(* the members in insertion order.  A listener is a callback of the        *)
(* embedding program; the three kinds below are the calls the engine's     *)
(* interface lets a callback make: none, step() and stepPrev().            *)
(***************************************************************************)
\* listeners subscribed at a time
MaxListeners == 2

\* "record" only looks at the event, "restep" calls step(), "undo" calls stepPrev()
ListenerKinds == {"record", "restep", "undo"}

\* subscribe(listener): listeners.add(listener)
subscribe(Ls, l) ==
  IF \E i \in 1..Len(Ls) : Ls[i] = l THEN Ls ELSE Append(Ls, l)

\* the function subscribe returns: listeners.delete(listener)
unsubscribe(Ls, l) ==
  LET Other(m) == m # l IN SelectSeq(Ls, Other)

\* what is written down when listener l is called with event e: the history
\* the engine holds at that moment and how deep in step() calls the call is
Notification(l, e, E, depth) ==
  [listener |-> l, step |-> e.step, id |-> e.action.id,
   inHistory |-> \E i \in 1..Len(E.executed) : E.executed[i] = e,
   depth |-> depth]

RECURSIVE stepEmit(_, _, _, _)
RECURSIVE emitTo(_, _, _, _, _, _)

\* emit(e): for (const l of listeners) l(e), from the listeners `rest` on
emitTo(E, all, rest, log, e, depth) ==
  IF rest = <<>> THEN [eng |-> E, log |-> log]
  ELSE LET l == Head(rest)
           log1 == Append(log, Notification(l, e, E, depth))
           r == CASE l = "record" -> [eng |-> E, log |-> log1]
                  [] l = "restep" -> stepEmit(E, all, log1, depth + 1)
                  [] l = "undo" -> [eng |-> stepPrev(E).eng, log |-> log1]
       IN emitTo(r.eng, all, Tail(rest), r.log, e, depth)

\* step() as the engine runs it: the action is shifted and applied, the
\* event emitted, and only then pushed on the history
stepEmit(E, all, log, depth) ==
  IF E.queue = <<>> THEN [eng |-> E, log |-> log, ret |-> None]
  ELSE LET action == Head(E.queue)
           before == cloneWorld(E.world)
           res == handlers(action.type, E.world)
           after == IF res.ok THEN Some(cloneWorld(res.world)) ELSE None
           event == [step |-> E.stepCounter + 1, action |-> action,
                     before |-> before, after |-> after,
                     ok |-> res.ok, reason |-> res.reason]
           E1 == [E EXCEPT !.world = res.world,
                           !.queue = QueueAfter(action.type, Tail(E.queue)),
                           !.stepCounter = E.stepCounter + 1]
           n == emitTo(E1, all, all, log, event, depth)
       IN [eng |-> [n.eng EXCEPT !.executed = Append(@, event)],
           log |-> n.log,
           ret |-> Some(event)]

\* actions enqueued since the last reset while listeners are subscribed
MaxWatched == 2

ListenerActions == {"move", "turnLeft"}

EnqueueWatched ==
  /\ nextId <= MaxWatched
  /\ \E type \in ListenerActions :
       LET r == enqueue(Eng, Action(type, "", nextId, 0))
       IN SetEng(r.eng) /\ returned' = Returned("enqueue", r.ret)
  /\ nextId' = nextId + 1
  /\ UNCHANGED <<bridgeVars, hookVars, listenerVars, builderVars, goalVars, paceVars>>

Subscribe ==
  /\ \E l \in ListenerKinds :
       /\ Len(subscribe(listeners, l)) <= MaxListeners
       /\ listeners' = subscribe(listeners, l)
  /\ returned' = Returned("subscribe", None)
  /\ UNCHANGED <<engineVars, nextId, bridgeVars, hookVars, notified, builderVars, goalVars, paceVars>>

Unsubscribe ==
  /\ \E i \in 1..Len(listeners) : listeners' = unsubscribe(listeners, listeners[i])
  /\ returned' = Returned("unsubscribe", None)
  /\ UNCHANGED <<engineVars, nextId, bridgeVars, hookVars, notified, builderVars, goalVars, paceVars>>

StepEmit ==
  /\ \E r \in {stepEmit(Eng, listeners, <<>>, 1)} :
       /\ SetEng(r.eng)
       /\ returned' = Returned("step", r.ret)
       /\ notified' = r.log
  /\ UNCHANGED <<nextId, listeners, bridgeVars, hookVars, builderVars, goalVars, paceVars>>

NextListeners == EnqueueWatched \/ StepEmit \/ StepPrev \/ Reset \/ Subscribe \/ Unsubscribe

SpecListeners == Init /\ [][NextListeners]_vars

(***************************************************************************)
(* One script run after the other, as handleRun drives bridge and engine   *)
(* when nothing interleaves: init, reset to the revealed world,            *)
(* runUserCode, the script's calls, then playback by step().               *)
(***************************************************************************)
ThinkValues == {20}

ScriptCalls ==
  {Call(n) : n \in EnqueueTypes \cup SensorNames} \cup {Think(ms) : ms \in ThinkValues}

\* useExecution.ts revealWorldObjects: a deep clone with every hidden flag cleared
revealWorldObjects(src) ==
  LET w == cloneWorld(src)
  IN [w EXCEPT !.objects = [i \in 1..Len(w.objects) |->
                              IF w.objects[i].hidden
                                THEN [w.objects[i] EXCEPT !.hidden = FALSE]
                              ELSE w.objects[i]]]

\* init(engine): load Pyodide, register the module, set initialized
BridgeInit ==
  /\ ~initialized
  /\ initialized' = TRUE
  /\ UNCHANGED <<engineVars, nextId, returned, paceMs, planWorld, script, hookVars, listenerVars, builderVars, goalVars, paceVars>>

\* handleRun from engine.reset(revealed) to runUserCode's await
StartRun ==
  /\ initialized
  /\ script # "running"
  /\ \E w \in InitWorlds :
       LET revealed == revealWorldObjects(w)
           r == reset(Eng, Some(revealed))
       IN /\ SetEng(r.eng)
          /\ returned' = Returned("reset", Some(revealed))
          /\ SetBr(runUserCode(r.eng, Br))
  /\ nextId' = 1
  /\ script' = "running"
  /\ enqueuedAt' = <<>>
  /\ playbackPace' = None
  /\ UNCHANGED <<hookVars, listenerVars, builderVars, goalVars>>

\* the script calls a primitive
ScriptCall ==
  /\ script = "running"
  /\ nextId <= MaxEnqueue
  /\ \E call \in ScriptCalls :
       LET r == Primitive(Eng, Br, call, nextId, 0)
       IN /\ SetEng(r.eng)
          /\ SetBr(r.bridge)
          /\ nextId' = nextId + Len(r.eng.queue) - Len(queue)
          /\ enqueuedAt' = enqueuedAt \o [i \in 1..(Len(r.eng.queue) - Len(queue)) |-> paceMs]
  /\ UNCHANGED <<returned, script, hookVars, listenerVars, builderVars, goalVars,
                 playbackPace>>

\* the script returns and handleRun sets the playback timer (line 104): its
\* delay is Math.max(1, getPaceMs() || 1)
ScriptEnd ==
  /\ script = "running"
  /\ script' = "finished"
  /\ playbackPace' = Some(IF paceMs > 1 THEN paceMs ELSE 1)
  /\ UNCHANGED <<engineVars, nextId, returned, initialized, paceMs, planWorld, hookVars, listenerVars, builderVars, goalVars,
                 enqueuedAt>>

\* one tick of the playback
PlaybackStep ==
  /\ script = "finished"
  /\ LET r == step(Eng)
     IN SetEng(r.eng) /\ returned' = Returned("step", r.ret)
  /\ UNCHANGED <<nextId, initialized, paceMs, planWorld, script, hookVars, listenerVars, builderVars, goalVars, paceVars>>

NextBridge == BridgeInit \/ StartRun \/ ScriptCall \/ ScriptEnd \/ PlaybackStep

SpecBridge == Init /\ [][NextBridge]_vars

(***************************************************************************)
(* useExecution.ts: the execution hook.  A handler runs to its first real  *)
(* suspension in one step: `await init(...)` suspends while the bridge is  *)
(* not initialised (Pyodide is being loaded) and resolves in a microtask   *)
(* once it is; `await runUserCode(...)` suspends until the script has      *)
(* run.  A suspended invocation is a task; its continuation is a step of   *)
(* its own, and so is every tick of an interval timer.  Handlers of other  *)
(* events run between these steps.  The live preflight effect (lines       *)
(* 42-53), which only rewrites the status text while editing, is left out. *)
(***************************************************************************)
\* runs, resets and world changes requested of the hook
MaxRequests == 2

\* A program in the editor: whether validatePythonActions accepts its text,
\* the primitives it calls, and whether it then raises an exception.
Code(ok, calls, raises) == [ok |-> ok, calls |-> calls, raises |-> raises]

Codes ==
  { Code(FALSE, <<>>, FALSE),
    Code(TRUE, <<Think(20), Call("move"), Call("put")>>, FALSE),
    Code(TRUE, <<Call("buildWall")>>, FALSE),
    Code(TRUE, <<Call("move")>>, TRUE) }

validatePythonActions(code) == [ok |-> code.ok]

\* messages.ts reasonToMessage: one text per error code, one for the rest
reasonToMessage(reason) ==
  IF reason # None /\ reason[1] \in {EngineErrors.OUT_OF_BOUNDS,
                                     EngineErrors.BLOCKED_BY_WALL,
                                     EngineErrors.NO_OBJECT_HERE,
                                     EngineErrors.NO_TOKEN_TO_PUT,
                                     EngineErrors.NO_ITEM_TO_PUT}
    THEN <<"message", reason[1]>>
  ELSE <<"message", "default">>

(***************************************************************************)
(* goal.ts: the goal evaluator.  A goal is the record                      *)
(*   [objects, walls, position, possible_final_positions]                  *)
(* of optional fields.  objects maps a coordinate <<x, y>> (the key "x,y") *)
(* to a requirement, itself a map from kinds to Exactly(n), All or         *)
(* Unknown (any other text); walls maps a coordinate to a set of           *)
(* directions; position is [x, y, orientation] with an optional            *)
(* orientation code; possible_final_positions is a list of such positions. *)
(* The x and y of a position are numbers that need not be whole: they are  *)
(* counted in halves (Whole(5) is 5, Whole(5) + 1 is 5.5).  An orientation *)
(* code is a number or a text, a text being the list of its characters.    *)
(* Goal, Position, Whole and Floor are defined with the world types.       *)
(***************************************************************************)
Exactly(n) == [tag |-> "number", n |-> n]
All == [tag |-> "all", n |-> 0]
Unknown == [tag |-> "text", n |-> 0]

NumberCode(n) == [tag |-> "number", n |-> n, s |-> <<>>]
TextCode(s) == [tag |-> "string", n |-> 0, s |-> s]

\* String.prototype.toUpperCase, on the letters the codes are written with
UpperCase(c) ==
  CASE c = "n" -> "N" [] c = "e" -> "E" [] c = "s" -> "S" [] c = "w" -> "W"
    [] c = "o" -> "O" [] c = "r" -> "R" [] c = "t" -> "T" [] c = "h" -> "H"
    [] c = "a" -> "A" [] c = "u" -> "U"
    [] OTHER -> c

toUpperCase(s) == [i \in 1..Len(s) |-> UpperCase(s[i])]

\* String.prototype.trim
RECURSIVE trim(_)
trim(s) ==
  IF s = <<>> THEN s
  ELSE IF Head(s) = " " THEN trim(Tail(s))
  ELSE IF s[Len(s)] = " " THEN trim(SubSeq(s, 1, Len(s) - 1))
  ELSE s

Digits == <<"0", "1", "2", "3", "4", "5", "6", "7", "8", "9">>

IsDigit(c) == \E d \in 1..10 : Digits[d] = c

DigitValue(c) == (CHOOSE d \in 1..10 : Digits[d] = c) - 1

\* the value of the digits s starts with, after the value acc
RECURSIVE LeadingDigits(_, _)
LeadingDigits(s, acc) ==
  IF s = <<>> \/ ~IsDigit(Head(s)) THEN acc
  ELSE LeadingDigits(Tail(s), 10 * acc + DigitValue(Head(s)))

\* parseInt(s, 10): leading blanks, a sign, then digits; NaN (none) when no
\* digit follows
parseInt(s) ==
  LET t == trim(s)
      signed == t # <<>> /\ Head(t) \in {"-", "+"}
      u == IF signed THEN Tail(t) ELSE t
  IN IF u = <<>> \/ ~IsDigit(Head(u)) THEN None
     ELSE Some((IF signed /\ Head(t) = "-" THEN -1 ELSE 1) * LeadingDigits(u, 0))

\* the switch both mappings apply to a number: 1 -> N, 2 -> W, 3 -> S,
\* otherwise E
DirOfNumber(n) ==
  CASE n = 1 -> "N"
    [] n = 2 -> "W"
    [] n = 3 -> "S"
    [] OTHER -> "E"

\* the names both mappings know, in upper case; none for any other text
DirOfName(s) ==
  CASE s = <<"N">> \/ s = <<"N", "O", "R", "T", "H">> -> Some("N")
    [] s = <<"E">> \/ s = <<"E", "A", "S", "T">> -> Some("E")
    [] s = <<"S">> \/ s = <<"S", "O", "U", "T", "H">> -> Some("S")
    [] s = <<"W">> \/ s = <<"W", "E", "S", "T">> -> Some("W")
    [] OTHER -> None

\* goal.ts parseDir: the direction of a code, or undefined (none)
parseDir(v) ==
  IF v.tag = "string" THEN DirOfName(toUpperCase(trim(v.s)))
  ELSE Some(DirOfNumber(v.n))

RECURSIVE TotalCount(_)
TotalCount(objs) ==
  IF objs = <<>> THEN 0 ELSE Head(objs).count + TotalCount(Tail(objs))

\* buildObservedSnapshot: the units of `kind` at (x,y) in stacks with count > 0
observedCount(state, x, y, kind) ==
  LET Counted(o) == o.x = x /\ o.y = y /\ o.kind = kind /\ o.count > 0
  IN TotalCount(SelectSeq(state.objects, Counted))

\* buildObservedSnapshot: the coordinates it has, and the kinds at one
observedCoords(state) ==
  {<<state.objects[i].x, state.objects[i].y>> :
     i \in {j \in 1..Len(state.objects) : state.objects[j].count > 0}}

observedKinds(state, x, y) ==
  {state.objects[i].kind :
     i \in {j \in 1..Len(state.objects) :
              /\ state.objects[j].x = x /\ state.objects[j].y = y
              /\ state.objects[j].count > 0}}

\* "all" standing for one unit
totalByKind_One(state, kind) == 1

\* buildExpectedSnapshot: the total of a kind over the whole grid
totalByKind(state, kind) ==
  LET OfKind(o) == o.kind = kind
  IN TotalCount(SelectSeq(state.objects, OfKind))

\* an unknown requirement read as "none of this kind"
expectedCount_UnknownIsZero(state, kind, val) ==
  CASE val.tag = "number" -> Some(val.n)
    [] val.tag = "all" -> Some(totalByKind(state, kind))
    [] OTHER -> Some(0)

\* buildExpectedSnapshot: the count a requirement asks for; none for NaN
expectedCount(state, kind, val) ==
  CASE val.tag = "number" -> Some(val.n)
    [] val.tag = "all" -> Some(totalByKind(state, kind))
    [] OTHER -> None

goalObjectsMet(state, objects) ==
  LET goalCoords == DOMAIN objects
      Empty(coord) == DOMAIN objects[coord] = {}
  IN /\ \A coord \in observedCoords(state) :
          coord \in goalCoords /\ ~Empty(coord)
     /\ \A coord \in {c \in goalCoords : ~Empty(c)} :
          /\ observedKinds(state, coord[1], coord[2]) \subseteq DOMAIN objects[coord]
          /\ \A kind \in DOMAIN objects[coord] :
               LET need == expectedCount(state, kind, objects[coord][kind])
                   have == observedCount(state, coord[1], coord[2], kind)
               IN need # None /\ have = need[1]
     /\ \A coord \in {c \in goalCoords : Empty(c)} :
          observedKinds(state, coord[1], coord[2]) = {}

mapWallTextToDir(d) ==
  CASE d = "north" -> "N"
    [] d = "east" -> "E"
    [] d = "south" -> "S"
    [] d = "west" -> "W"

\* the walls clause asking for one of the listed walls only
goalWallsMet_AnyListed(state, walls) ==
  \E coord \in DOMAIN walls :
    \E d \in walls[coord] : hasWallAt(state, coord[1], coord[2], mapWallTextToDir(d))

goalWallsMet(state, walls) ==
  \A coord \in DOMAIN walls :
    \A d \in walls[coord] : hasWallAt(state, coord[1], coord[2], mapWallTextToDir(d))

\* the facing agrees with an optional code: no code or a code parseDir does
\* not know asks for nothing
facingMet(state, orientation) ==
  orientation = None
  \/ LET d == parseDir(orientation[1]) IN d = None \/ state.robot.dir = d[1]

goalPositionMet(state, position) ==
  /\ state.robot.x = Floor(position.x) /\ state.robot.y = Floor(position.y)
  /\ facingMet(state, position.orientation)

goalFinalPositionsMet(state, positions) ==
  Len(positions) > 0 =>
    \E i \in 1..Len(positions) :
      /\ state.robot.x = Floor(positions[i].x)
      /\ state.robot.y = Floor(positions[i].y)
      /\ facingMet(state, positions[i].orientation)

\* What a document's goal block is: an object, whose fields are taken to be
\* of the types parseGoal asks for, some other value (a text), or undefined.
RawObject(goal) == [tag |-> "object", goal |-> goal]
RawText == [tag |-> "text", goal |-> Goal(None, None, None, None)]
RawAbsent == [tag |-> "undefined", goal |-> Goal(None, None, None, None)]

\* goal.ts parseGoal: undefined unless the block is an object
parseGoal(raw) == IF raw.tag = "object" THEN Some(raw.goal) ELSE None

\* evaluateGoal without the walls clause
evaluateGoal_NoWalls(state, goal) ==
  goal = None
  \/ /\ goal[1].objects # None => goalObjectsMet(state, goal[1].objects[1])
     /\ goal[1].position # None => goalPositionMet(state, goal[1].position[1])
     /\ goal[1].possible_final_positions # None
          => goalFinalPositionsMet(state, goal[1].possible_final_positions[1])

\* goal.ts evaluateGoal; without a goal there is nothing to fail
evaluateGoal(state, goal) ==
  goal = None
  \/ /\ goal[1].objects # None => goalObjectsMet(state, goal[1].objects[1])
     /\ goal[1].walls # None => goalWallsMet(state, goal[1].walls[1])
     /\ goal[1].position # None => goalPositionMet(state, goal[1].position[1])
     /\ goal[1].possible_final_positions # None
          => goalFinalPositionsMet(state, goal[1].possible_final_positions[1])

\* the listener the hook subscribes (lines 24-38)
subscriber(u, e) ==
  LET u1 == IF ~e.ok
              THEN [u EXCEPT !.status = reasonToMessage(e.reason),
                             !.statusKind = "error"]
            ELSE u
      state == IF e.ok THEN e.after[1] ELSE e.before
  IN [u1 EXCEPT !.robot = state.robot,
                !.objects = state.objects,
                !.walls = state.walls]

\* engine.ts emit, called by step() for the event it produced; the hook's
\* listener is the only one subscribed
emit(u, ret) == IF ret = None THEN u ELSE subscriber(u, ret[1])

Timer(run, pace) == [run |-> run, pace |-> pace]

clearRunTimer(ref, live) ==
  [ref |-> None, timers |-> IF ref # None THEN live \ {ref[1]} ELSE live]

Task(kind, run, pc, code, revealed) ==
  [kind |-> kind, run |-> run, pc |-> pc, code |-> code, revealed |-> revealed]

\* py.runPythonAsync(code): the script's calls, one after the other
RECURSIVE runPythonAsync(_, _, _, _, _)
runPythonAsync(E, B, calls, id, run) ==
  IF calls = <<>> THEN [eng |-> E, bridge |-> B]
  ELSE LET r == Primitive(E, B, Head(calls), id, run)
       IN runPythonAsync(r.eng, r.bridge, Tail(calls),
                         id + Len(r.eng.queue) - Len(E.queue), run)

\* handleNext, lines 161-165
NextOutcome(u, ev) ==
  IF ev # None /\ ev[1].ok THEN [u EXCEPT !.currentStep = @ + 1]
  ELSE IF ev # None
    THEN [u EXCEPT !.status = reasonToMessage(ev[1].reason), !.statusKind = "error"]
  ELSE u

HandleRun ==
  \E code \in Codes :
    \E c \in {clearRunTimer(runTimerRef, timers)},
       pre \in {validatePythonActions(code)} :
       /\ runTimerRef' = c.ref
       /\ timers' = c.timers
       /\ IF ~pre.ok
            THEN /\ ui' = [ui EXCEPT !.reverseTurn = FALSE,
                                     !.status = "preflight",
                                     !.statusKind = "error"]
                 /\ caller' = Caller("handleRun", epoch)
                 /\ UNCHANGED <<engineVars, returned, initialized, paceMs,
                                planWorld, tasks, epoch>>
          ELSE /\ epoch < MaxRequests
               /\ LET revealed == revealWorldObjects(worldProp)
                      r == reset(Eng, Some(revealed))
                  IN /\ SetEng(r.eng)
                     /\ returned' = Returned("reset", Some(revealed))
                     /\ ui' = [ui EXCEPT !.reverseTurn = FALSE,
                                         !.status = "Running...",
                                         !.statusKind = "running",
                                         !.objects = revealed.objects]
                     /\ IF initialized
                          THEN /\ SetBr(runUserCode(r.eng, Br))
                               /\ tasks' = tasks \cup
                                    {Task("run", epoch + 1, "script", code, revealed)}
                        ELSE /\ UNCHANGED <<initialized, paceMs, planWorld>>
                             /\ tasks' = tasks \cup
                                  {Task("run", epoch + 1, "init", code, revealed)}
               /\ epoch' = epoch + 1
               /\ caller' = Caller("handleRun", epoch + 1)
       /\ UNCHANGED <<listenerVars, builderVars, goalVars, paceVars, nextId, script, worldProp>>

HandleNext ==
  \E code \in Codes :
    \E c \in {clearRunTimer(runTimerRef, timers)},
       pre \in {validatePythonActions(code)},
       s \in {step(Eng)} :
       \E shown \in {emit([ui EXCEPT !.reverseTurn = FALSE], s.ret)} :
       /\ runTimerRef' = c.ref
       /\ timers' = c.timers
       /\ IF s.ret = None /\ ui.currentStep = 0
            THEN IF ~pre.ok
                   THEN /\ ui' = [shown EXCEPT !.status = "preflight",
                                              !.statusKind = "error"]
                        /\ returned' = Returned("step", None)
                        /\ caller' = Caller("handleNext", epoch)
                        /\ UNCHANGED <<engineVars, initialized, paceMs,
                                       planWorld, tasks, epoch>>
                 ELSE /\ epoch < MaxRequests
                      /\ LET revealed == revealWorldObjects(worldProp)
                             r == reset(Eng, Some(revealed))
                         IN /\ ui' = [shown EXCEPT !.status = "Running...",
                                                  !.statusKind = "running",
                                                  !.objects = revealed.objects]
                            /\ IF initialized
                                 THEN /\ SetEng(r.eng)
                                      /\ returned' = Returned("reset", Some(revealed))
                                      /\ SetBr(runUserCode(r.eng, Br))
                                      /\ tasks' = tasks \cup
                                           {Task("next", epoch + 1, "script", code, revealed)}
                               ELSE /\ returned' = Returned("step", None)
                                    /\ UNCHANGED <<engineVars, initialized, paceMs,
                                                   planWorld>>
                                    /\ tasks' = tasks \cup
                                         {Task("next", epoch + 1, "init", code, revealed)}
                      /\ epoch' = epoch + 1
                      /\ caller' = Caller("handleNext", epoch + 1)
          ELSE /\ SetEng(s.eng)
               /\ returned' = Returned("step", s.ret)
               /\ ui' = NextOutcome(shown, s.ret)
               /\ caller' = Caller("handleNext", epoch)
               /\ UNCHANGED <<initialized, paceMs, planWorld, tasks, epoch>>
       /\ UNCHANGED <<listenerVars, builderVars, goalVars, paceVars, nextId, script, worldProp>>

HandlePrev ==
  LET c == clearRunTimer(runTimerRef, timers)
      r == stepPrev(Eng)
  IN /\ runTimerRef' = c.ref
     /\ timers' = c.timers
     /\ SetEng(r.eng)
     /\ returned' = Returned("stepPrev", r.ret)
     /\ ui' = IF r.ret # None
                THEN [ui EXCEPT !.reverseTurn = TRUE,
                                !.currentStep = IF @ - 1 > 0 THEN @ - 1 ELSE 0,
                                !.robot = r.ret[1].robot,
                                !.objects = r.ret[1].objects]
              ELSE [ui EXCEPT !.reverseTurn = TRUE]
     /\ caller' = Caller("handlePrev", epoch)
     /\ UNCHANGED <<listenerVars, builderVars, goalVars, paceVars, nextId, bridgeVars, worldProp, tasks, epoch>>

HandleReset ==
  LET c == clearRunTimer(runTimerRef, timers)
      r == reset(Eng, Some(worldProp))
  IN /\ epoch < MaxRequests
     /\ runTimerRef' = c.ref
     /\ timers' = c.timers
     /\ SetEng(r.eng)
     /\ returned' = Returned("reset", Some(worldProp))
     /\ ui' = UiOf(worldProp)
     /\ epoch' = epoch + 1
     /\ caller' = Caller("handleReset", epoch + 1)
     /\ UNCHANGED <<listenerVars, builderVars, goalVars, paceVars, nextId, bridgeVars, worldProp, tasks>>

\* App.tsx calls setWorld(w) and onWorldChanged(w) together
OnWorldChanged ==
  \E newWorld \in ChangedWorlds :
    LET c == clearRunTimer(runTimerRef, timers)
        r == reset(Eng, Some(newWorld))
    IN /\ epoch < MaxRequests
       /\ runTimerRef' = c.ref
       /\ timers' = c.timers
       /\ SetEng(r.eng)
       /\ returned' = Returned("reset", Some(newWorld))
       /\ ui' = UiOf(newWorld)
       /\ worldProp' = newWorld
       /\ epoch' = epoch + 1
       /\ caller' = Caller("onWorldChanged", epoch + 1)
       /\ UNCHANGED <<listenerVars, builderVars, goalVars, paceVars, nextId, bridgeVars, tasks>>

\* init() completes: a suspended handleRun goes on to runUserCode (line 95),
\* a suspended handleNext resets the engine first (lines 148-150)
InitDone ==
  \E t \in tasks :
    /\ t.pc = "init"
    /\ LET E1 == IF t.kind = "next" THEN reset(Eng, Some(t.revealed)).eng ELSE Eng
       IN /\ SetEng(E1)
          /\ SetBr(runUserCode(E1, [Br EXCEPT !.initialized = TRUE]))
    /\ returned' = IF t.kind = "next" THEN Returned("reset", Some(t.revealed))
                   ELSE returned
    /\ tasks' = (tasks \ {t}) \cup {[t EXCEPT !.pc = "script"]}
    /\ caller' = Caller(IF t.kind = "run" THEN "handleRun" ELSE "handleNext", t.run)
    /\ UNCHANGED <<listenerVars, builderVars, goalVars, paceVars, nextId, script, worldProp, ui, runTimerRef, timers, epoch>>

\* the script runs and the handler that awaited it goes on: handleRun from
\* line 96 (catch) or 104 (setInterval), handleNext from line 151 or 159
ScriptRun ==
  \E t \in tasks :
    /\ t.pc = "script"
    /\ \E r \in {runPythonAsync(Eng, Br, t.code.calls, 1, t.run)} :
       \E s \in {step(r.eng)},
          tm \in {Timer(t.run, IF r.bridge.paceMs >= 1 THEN r.bridge.paceMs ELSE 1)} :
          /\ SetBr(r.bridge)
          /\ IF t.code.raises
               THEN /\ SetEng(r.eng)
                    /\ ui' = [ui EXCEPT !.status = "Python error",
                                        !.statusKind = "error"]
                    /\ UNCHANGED <<returned, runTimerRef, timers>>
             ELSE IF t.kind = "run"
               THEN /\ SetEng(r.eng)
                    /\ runTimerRef' = Some(tm)
                    /\ timers' = timers \cup {tm}
                    /\ UNCHANGED <<returned, ui>>
             ELSE /\ SetEng(s.eng)
                  /\ returned' = Returned("step", s.ret)
                  /\ ui' = NextOutcome(emit(ui, s.ret), s.ret)
                  /\ UNCHANGED <<runTimerRef, timers>>
    /\ tasks' = tasks \ {t}
    /\ caller' = Caller(IF t.kind = "run" THEN "handleRun" ELSE "handleNext", t.run)
    /\ UNCHANGED <<listenerVars, builderVars, goalVars, paceVars, nextId, script, worldProp, epoch>>

\* one tick of an interval timer (lines 105-126)
TimerTick ==
  \E tm \in timers :
    \E s \in {step(Eng)}, c \in {clearRunTimer(runTimerRef, timers)} :
       \E shown \in {emit(ui, s.ret)} :
       /\ SetEng(s.eng)
       /\ returned' = Returned("step", s.ret)
       /\ IF s.ret = None
            THEN /\ runTimerRef' = c.ref
                 /\ timers' = c.timers
                 /\ ui' = [shown EXCEPT
                             !.status = IF evaluateGoal(getState(s.eng), getState(s.eng).goal)
                                          THEN "success" ELSE "fail",
                             !.statusKind = "info"]
          ELSE IF s.ret[1].ok
            THEN /\ ui' = [shown EXCEPT !.currentStep = @ + 1]
                 /\ UNCHANGED <<runTimerRef, timers>>
          ELSE /\ runTimerRef' = c.ref
               /\ timers' = c.timers
               /\ ui' = [shown EXCEPT !.status = reasonToMessage(s.ret[1].reason),
                                     !.statusKind = "error"]
       /\ caller' = Caller("timer", tm.run)
       /\ UNCHANGED <<listenerVars, builderVars, goalVars, paceVars, nextId, bridgeVars, worldProp, tasks, epoch>>

NextUI ==
  \/ HandleRun \/ HandleNext \/ HandlePrev \/ HandleReset \/ OnWorldChanged
  \/ InitDone \/ ScriptRun \/ TimerTick

SpecUI == Init /\ [][NextUI]_vars

(***************************************************************************)
(* The playback left alone: the user acts only while no interval timer is  *)
(* live, and a live timer keeps ticking.                                   *)
(***************************************************************************)
QuietRun == timers = {} /\ HandleRun

QuietNext == timers = {} /\ HandleNext

QuietPrev == timers = {} /\ HandlePrev

QuietReset == timers = {} /\ HandleReset

QuietWorldChanged == timers = {} /\ OnWorldChanged

NextPlayback ==
  \/ QuietRun \/ QuietNext \/ QuietPrev \/ QuietReset \/ QuietWorldChanged
  \/ InitDone \/ ScriptRun \/ TimerTick

\* setInterval: a timer that was set and not cleared fires again and again
SpecPlayback == Init /\ [][NextPlayback]_vars /\ WF_vars(TimerTick)

(***************************************************************************)
(* loader.ts and onload.ts: the World Builder.  A document is the record   *)
(*   [cols, rows, robot, walls, objects, onload]                           *)
(* cols, rows and robot are optional.  walls is the list of the entries of *)
(* the document's walls map, each [x, y, dirs] with x,y the numbers its    *)
(* key parses to (two keys, such as "1,1" and "01,1", may parse to the     *)
(* same cell); objects is the list of the (key, kind) entries of the       *)
(* objects map, each [x, y, kind, val].  Coordinates are integers, so      *)
(* Math.floor leaves them as they are.  onload is the list of the builder  *)
(* script's statements.  The document's goal block, its tiles, the         *)
(* robot's token count (0 when absent) and the range kept on a randomised  *)
(* stack are left out.                                                     *)
(***************************************************************************)
\* the outcomes of Math.random() told apart: 0..MaxRandom
MaxRandom == 1

Num(n) == [tag |-> "number", n |-> n, lo |-> 0, hi |-> 0]
Range(lo, hi) == [tag |-> "range", n |-> 0, lo |-> lo, hi |-> hi]
Text == [tag |-> "text", n |-> 0, lo |-> 0, hi |-> 0]

WallsEntry(x, y, dirs) == [x |-> x, y |-> y, dirs |-> dirs]
ObjectsEntry(x, y, kind, val) == [x |-> x, y |-> y, kind |-> kind, val |-> val]
Robot(x, y, orientation) == [x |-> x, y |-> y, orientation |-> orientation]

\* the statements of a builder script
SetWorldSize(width, height) ==
  [op |-> "set_world_size", a |-> width, b |-> height, dir |-> "", kind |-> "",
   n |-> 0, goal |-> FALSE]
AddWall(dir, x, y, goal) ==
  [op |-> "add_wall", a |-> x, b |-> y, dir |-> dir, kind |-> "", n |-> 0,
   goal |-> goal]
RemoveWall(dir, x, y) ==
  [op |-> "remove_wall", a |-> x, b |-> y, dir |-> dir, kind |-> "", n |-> 0,
   goal |-> FALSE]
AddObject(kind, x, y, n, goal) ==
  [op |-> "add_object", a |-> x, b |-> y, dir |-> "", kind |-> kind, n |-> n,
   goal |-> goal]
\* a statement that throws
Throw ==
  [op |-> "throw", a |-> 0, b |-> 0, dir |-> "", kind |-> "", n |-> 0,
   goal |-> FALSE]

\* loader.ts mapOrientationToDir: no code -> E; a text is a name, or else
\* the number parseInt reads from it, or else E
mapOrientationToDir(orientation) ==
  IF orientation = None THEN "E"
  ELSE IF orientation[1].tag = "string"
    THEN LET t == toUpperCase(trim(orientation[1].s))
         IN IF DirOfName(t) # None THEN DirOfName(t)[1]
            ELSE IF parseInt(t) # None THEN DirOfNumber(parseInt(t)[1])
            ELSE "E"
  ELSE DirOfNumber(orientation[1].n)

mapWallDir(d) ==
  CASE d = "north" -> "N"
    [] d = "east" -> "E"
    [] d = "south" -> "S"
    [] d = "west" -> "W"

mapWallDirText(d) == mapWallDir(d)

\* loader.ts 254-265: one record per listed direction, as listed
RECURSIVE WallsOfEntry(_, _)
WallsOfEntry(e, dirs) ==
  IF dirs = <<>> THEN <<>>
  ELSE <<Wall(e.x, e.y, mapWallDir(Head(dirs)))>> \o WallsOfEntry(e, Tail(dirs))

RECURSIVE LoadWalls(_)
LoadWalls(entries) ==
  IF entries = <<>> THEN <<>>
  ELSE WallsOfEntry(Head(entries), Head(entries).dirs) \o LoadWalls(Tail(entries))

\* loader.ts 267-302: unknown kinds are skipped; a number is the count, a
\* range "lo-hi" gives a random count in it and a hidden stack, any other
\* text the count 0; only a count > 0 gives a stack
RECURSIVE LoadObjects(_, _)
LoadObjects(entries, u) ==
  IF entries = <<>> THEN <<>>
  ELSE LET e == Head(entries)
           lo == IF e.val.lo < e.val.hi THEN e.val.lo ELSE e.val.hi
           hi == IF e.val.lo < e.val.hi THEN e.val.hi ELSE e.val.lo
           count == CASE e.val.tag = "number" -> e.val.n
                      [] e.val.tag = "range" -> lo + (u % (hi - lo + 1))
                      [] OTHER -> 0
           stack == IF e.val.tag = "range" THEN HiddenStack(e.x, e.y, e.kind, count, lo, hi)
                    ELSE Stack(e.x, e.y, e.kind, count, FALSE)
       IN (IF e.kind \in ObjectKind /\ count > 0 THEN <<stack>> ELSE <<>>)
          \o LoadObjects(Tail(entries), u)

\* onload.ts removeWall
removeWall(walls, x, y, dir) ==
  LET Other(w) == ~(w.x = x /\ w.y = y /\ w.dir = dir) IN SelectSeq(walls, Other)

\* removeWallSymmetric forgetting the neighbouring cell
removeWallSymmetric_OneSide(walls, x, y, dir) == removeWall(walls, x, y, dir)

\* onload.ts removeWallSymmetric
removeWallSymmetric(walls, x, y, dir) ==
  LET nx == x + (IF dir = "E" THEN 1 ELSE IF dir = "W" THEN -1 ELSE 0)
      ny == y + (IF dir = "N" THEN 1 ELSE IF dir = "S" THEN -1 ELSE 0)
      opp == CASE dir = "N" -> "S" [] dir = "S" -> "N"
               [] dir = "E" -> "W" [] dir = "W" -> "E"
  IN removeWall(removeWall(walls, x, y, dir), nx, ny, opp)

\* onload.ts addObjectCount
addObjectCount(list, x, y, kind, n) ==
  LET hits == {i \in 1..Len(list) :
                 list[i].x = x /\ list[i].y = y /\ list[i].kind = kind}
  IN IF n <= 0 THEN list
     ELSE IF hits = {} THEN Append(list, Stack(x, y, kind, n, FALSE))
     ELSE LET i == CHOOSE i \in hits : \A j \in hits : i <= j
          IN [list EXCEPT ![i].count = @ + n]

\* one statement of the builder script applied to the world under
\* construction; a statement flagged goal goes to the goal, not the world
RUR(w, s) ==
  CASE s.op = "set_world_size" ->
         (IF s.a >= 1 /\ s.b >= 1 THEN [w EXCEPT !.width = s.a, !.height = s.b]
          ELSE w)
    [] s.op = "add_wall" ->
         (IF s.goal \/ hasWallAt(w, s.a, s.b, mapWallDirText(s.dir)) THEN w
          ELSE [w EXCEPT !.walls = Append(@, Wall(s.a, s.b, mapWallDirText(s.dir)))])
    [] s.op = "remove_wall" ->
         [w EXCEPT !.walls = removeWallSymmetric(@, s.a, s.b, mapWallDirText(s.dir))]
    [] s.op = "add_object" ->
         (IF s.kind \notin ObjectKind \/ s.goal THEN w
          ELSE [w EXCEPT !.objects = addObjectCount(@, s.a, s.b, s.kind, s.n)])

\* the script runs statement by statement; one that throws ends it, and the
\* catch keeps what the earlier statements did
RECURSIVE RunOnload(_, _)
RunOnload(w, onload) ==
  IF onload = <<>> \/ Head(onload).op = "throw" THEN w
  ELSE RunOnload(RUR(w, Head(onload)), Tail(onload))

applyOnload(w, onload) ==
  IF onload = <<>> THEN w ELSE RunOnload(cloneWorld(w), onload)

\* u stands for the outcome of Math.random()
loadReeborgWorld(data, u) ==
  LET width == IF data.cols = None THEN 10 ELSE data.cols[1]
      height == IF data.rows = None THEN 10 ELSE data.rows[1]
      rx == IF data.robot = None THEN 1 ELSE data.robot[1].x
      ry == IF data.robot = None THEN 1 ELSE data.robot[1].y
      rdir == mapOrientationToDir(IF data.robot = None THEN None
                                  ELSE data.robot[1].orientation)
      w == MkWorld(width, height, rx, ry, rdir, Some(<<>>),
                   LoadWalls(data.walls), LoadObjects(data.objects, u))
  IN applyOnload(w, data.onload)

(***************************************************************************)
(* The documents the builder is given.                                     *)
(***************************************************************************)
\* the longest builder script
MaxOnload == 2

Document(cols, rows, robot, walls, objects, onload) ==
  [cols |-> cols, rows |-> rows, robot |-> robot, walls |-> walls,
   objects |-> objects, onload |-> onload]

DocSizes == {<<None, None>>, <<Some(2), Some(2)>>, <<Some(3), Some(1)>>}

DocRobots == {None, Some(Robot(3, 1, Some(NumberCode(2))))}

DocWalls ==
  {<<>>,
   <<WallsEntry(1, 1, <<"east", "north">>)>>,
   <<WallsEntry(1, 1, <<"east", "east">>)>>,
   <<WallsEntry(1, 1, <<"east">>), WallsEntry(1, 1, <<"east">>)>>,
   <<WallsEntry(2, 1, <<"west">>)>>,
   <<WallsEntry(0, 3, <<"south">>)>>}

DocObjects ==
  {<<>>,
   <<ObjectsEntry(1, 1, "carrot", Num(2)), ObjectsEntry(1, 1, "apple", Num(1))>>,
   <<ObjectsEntry(2, 1, "apple", Range(1, 2))>>,
   <<ObjectsEntry(1, 1, "star", Num(1)), ObjectsEntry(1, 1, "carrot", Num(0)),
     ObjectsEntry(2, 1, "leaf", Text)>>,
   <<ObjectsEntry(5, 5, "carrot", Num(1))>>}

Statements ==
  {SetWorldSize(1, 1), SetWorldSize(0, 2),
   AddWall("east", 1, 1, FALSE), AddWall("north", 2, 4, FALSE),
   RemoveWall("east", 1, 1),
   AddObject("carrot", 1, 1, 1, FALSE), AddObject("token", 4, 1, 2, FALSE),
   AddObject("leaf", 1, 1, 1, TRUE),
   Throw}

Onloads == UNION {[1..n -> Statements] : n \in 0..MaxOnload}

Documents ==
  {Document(s[1], s[2], r, w, o, l) :
     s \in DocSizes, r \in DocRobots, w \in DocWalls, o \in DocObjects,
     l \in Onloads}

(***************************************************************************)
(* The builder applied to a document.                                      *)
(***************************************************************************)
LoadWorld ==
  /\ document = None
  /\ \E doc \in Documents, u \in 0..MaxRandom :
       /\ document' = Some(doc)
       /\ built' = Some(loadReeborgWorld(doc, u))
  /\ UNCHANGED <<engineVars, nextId, returned, bridgeVars, hookVars, listenerVars,
                 goalVars, paceVars>>

NextBuilder == LoadWorld

SpecBuilder == Init /\ [][NextBuilder]_vars

(***************************************************************************)
(* The goal evaluator applied to a world and a goal.  The worlds have at   *)
(* most one stack per cell and kind, each with a count in 1..MaxCount.     *)
(***************************************************************************)
\* the largest count of a stack
MaxCount == 2

GoalCells == {<<5, 5>>, <<1, 1>>}
GoalKinds == {"carrot", "apple"}

\* the stacks of a world, given the count of each (cell, kind); 0 for none
RECURSIVE StacksOf(_, _)
StacksOf(counts, keys) ==
  IF keys = {} THEN <<>>
  ELSE LET key == CHOOSE k \in keys :
                    \A l \in keys :
                      \/ k[1][1] < l[1][1]
                      \/ (k[1][1] = l[1][1] /\ KindRank(k[2]) <= KindRank(l[2]))
       IN (IF counts[key] > 0
             THEN <<Stack(key[1][1], key[1][2], key[2], counts[key], FALSE)>>
             ELSE <<>>)
          \o StacksOf(counts, keys \ {key})

GoalWalls ==
  {<<>>, <<Wall(5, 5, "N")>>,
   <<Wall(5, 5, "N"), Wall(5, 5, "E"), Wall(1, 1, "S")>>}

GoalWorlds ==
  {MkWorld(5, 5, at[1], at[2], dir, Some(<<>>), walls,
           StacksOf(counts, GoalCells \X GoalKinds)) :
     at \in GoalCells, dir \in {"E", "N"}, walls \in GoalWalls,
     counts \in [GoalCells \X GoalKinds -> 0..MaxCount]}

\* {"5,5": {"carrot": "all"}}
GoalAllCarrots ==
  Goal(Some([coord \in {<<5, 5>>} |-> [kind \in {"carrot"} |-> All]]),
       None, None, None)

\* the objects fields of the goals
GoalObjects ==
  {[coord \in {<<5, 5>>} |-> [kind \in {"carrot"} |-> All]],
   [coord \in {<<5, 5>>, <<1, 1>>} |->
      IF coord = <<1, 1>> THEN <<>> ELSE [kind \in {"carrot"} |-> Exactly(2)]],
   [coord \in {<<5, 5>>} |-> [kind \in {"apple"} |-> Unknown]],
   [coord \in {<<5, 5>>, <<1, 1>>} |->
      IF coord = <<1, 1>> THEN [kind \in {"apple"} |-> Exactly(1)]
      ELSE [kind \in {"carrot", "apple"} |->
              IF kind = "carrot" THEN All ELSE Exactly(1)]],
   <<>>}

\* the walls fields of the goals
GoalWallLists ==
  {[coord \in {<<5, 5>>} |-> {"north", "east"}],
   [coord \in {<<5, 5>>, <<1, 1>>} |->
      IF coord = <<1, 1>> THEN {} ELSE {"north"}]}

\* the orientation codes of the goals
OrientationCodes ==
  {NumberCode(0), NumberCode(1), NumberCode(2), NumberCode(3), NumberCode(7),
   TextCode(<<"N">>), TextCode(<<"n", "o", "r", "t", "h">>),
   TextCode(<<" ", "e", " ">>), TextCode(<<"1">>), TextCode(<<"3", "x">>),
   TextCode(<<"x">>), TextCode(<<>>)}

\* the positions of the goals: (5,5) and (5.5,5), with and without a code
GoalPositions ==
  {Position(Whole(5), Whole(5), None), Position(Whole(5) + 1, Whole(5), None)}
  \cup {Position(Whole(5), Whole(5), Some(c)) : c \in OrientationCodes}

\* the possible_final_positions fields of the goals
GoalFinalPositions ==
  {<<>>,
   <<Position(Whole(1), Whole(1), None),
     Position(Whole(5), Whole(5), Some(NumberCode(0)))>>,
   <<Position(Whole(5), Whole(5), Some(TextCode(<<"1">>)))>>,
   <<Position(Whole(5), Whole(5), Some(TextCode(<<"e">>))),
     Position(Whole(1) + 1, Whole(1) + 1, Some(NumberCode(1)))>>}

Goals ==
  {Goal(Some(o), None, None, None) : o \in GoalObjects}
  \cup {Goal(None, Some(w), None, None) : w \in GoalWallLists}
  \cup {Goal(None, None, Some(p), None) : p \in GoalPositions}
  \cup {Goal(None, None, None, Some(l)) : l \in GoalFinalPositions}
  \cup {Goal(None, None, None, None),
        Goal(None, Some([coord \in {<<5, 5>>} |-> {"north"}]),
             Some(Position(Whole(5), Whole(5), Some(NumberCode(1)))), None),
        Goal(Some([coord \in {<<5, 5>>} |-> [kind \in {"carrot"} |-> All]]),
             Some([coord \in {<<5, 5>>} |-> {"north"}]),
             Some(Position(Whole(5), Whole(5), None)),
             Some(<<Position(Whole(5), Whole(5), Some(NumberCode(1)))>>))}

RawGoals == {RawAbsent, RawText} \cup {RawObject(g) : g \in Goals}

EvaluateGoal ==
  /\ evaluated = None
  /\ \E state \in GoalWorlds, raw \in RawGoals :
       evaluated' = Some([state |-> state, raw |-> raw, goal |-> parseGoal(raw),
                          satisfied |-> evaluateGoal(state, parseGoal(raw))])
  /\ UNCHANGED <<engineVars, nextId, returned, bridgeVars, hookVars, listenerVars,
                 builderVars, paceVars>>

NextGoal == EvaluateGoal

SpecGoal == Init /\ [][NextGoal]_vars

(***************************************************************************)
(* Properties of the engine                                                *)
(***************************************************************************)
Opposite(dir) ==
  CASE dir = "N" -> "S"
    [] dir = "E" -> "W"
    [] dir = "S" -> "N"
    [] dir = "W" -> "E"

\* the cell the robot of w faces, by the mapping N:(0,+1) E:(+1,0) S:(0,-1) W:(-1,0)
DestX(w) == w.robot.x + (IF w.robot.dir = "E" THEN 1 ELSE IF w.robot.dir = "W" THEN -1 ELSE 0)
DestY(w) == w.robot.y + (IF w.robot.dir = "N" THEN 1 ELSE IF w.robot.dir = "S" THEN -1 ELSE 0)

WallRecords(w) == {w.walls[i] : i \in 1..Len(w.walls)}

DestInside(w) ==
  /\ 1 <= DestX(w) /\ DestX(w) <= w.width
  /\ 1 <= DestY(w) /\ DestY(w) <= w.height

NearWall(w) == Wall(w.robot.x, w.robot.y, w.robot.dir) \in WallRecords(w)

FarWall(w) == Wall(DestX(w), DestY(w), Opposite(w.robot.dir)) \in WallRecords(w)

StackHere(w) ==
  \E i \in 1..Len(w.objects) :
    /\ w.objects[i].x = w.robot.x /\ w.objects[i].y = w.robot.y
    /\ w.objects[i].count > 0

Carrying(w) == w.robot.inventory # None /\ w.robot.inventory[1] # <<>>

\* the transition of `type` must fail in w
MustFail(type, w) ==
  \/ type = "move" /\ ~(DestInside(w) /\ ~NearWall(w) /\ ~FarWall(w))
  \/ type = "take" /\ ~StackHere(w)
  \/ type = "put" /\ ~Carrying(w)

ReasonCodes == {EngineErrors[k] : k \in DOMAIN EngineErrors}

Ids(actions) == {actions[i].id : i \in 1..Len(actions)}

ExecutedActions == [i \in 1..Len(executed) |-> executed[i].action]

\* the engine with the given world and exactly one pending action of `type`
EngWith(w, type) ==
  [Eng EXCEPT !.world = w, !.queue = <<Action(type, "", nextId, 0)>>]

C2_FailedStepLeavesWorld ==
  /\ queue # <<>> =>
       LET r == step(Eng)
           e == r.ret[1]
       IN /\ r.ret # None
          /\ MustFail(Head(queue).type, world) => ~e.ok
          /\ ~e.ok =>
               /\ e.reason # None /\ e.reason[1] \in ReasonCodes
               /\ e.after = None
               /\ e.before = world
               /\ r.eng.world = e.before
               /\ r.eng.queue = Tail(queue)
               /\ e.action.id \notin Ids(r.eng.queue)
  /\ (returned.op = "step" /\ returned.val # None /\ ~returned.val[1].ok) =>
       /\ world = returned.val[1].before
       /\ returned.val[1].after = None
       /\ returned.val[1].action.id \notin Ids(queue)

\* a take has just failed while other actions are still pending
C2_Witness ==
  /\ returned.op = "step" /\ returned.val # None
  /\ returned.val[1].action.type = "take"
  /\ ~returned.val[1].ok
  /\ queue # <<>>

\* C3: with a non-empty queue, step() followed at once by stepPrev() leaves
\* the committed world as it was before the step, puts the undone action back
\* at the front of the queue, removes the event from the history and returns
\* the step counter to its value before the step.
C3_StepThenStepPrev ==
  queue # <<>> =>
    LET s == step(Eng)
        p == stepPrev(s.eng)
    IN /\ s.ret # None
       /\ s.eng.executed = Append(executed, s.ret[1])
       /\ p.ret = Some(world)
       /\ p.eng.world = world
       /\ p.eng.queue # <<>> /\ Head(p.eng.queue) = Head(queue)
       /\ p.eng.executed = executed
       /\ p.eng.stepCounter = stepCounter

\* the only action enqueued since the reset was stepped and then undone
C3_Witness ==
  /\ returned.op = "stepPrev" /\ returned.val # None
  /\ nextId = 2 /\ executed = <<>> /\ Len(queue) = 1
  /\ Head(queue).type = "turnLeft"

RECURSIVE StepN(_, _)
\* the engine after k calls of step()
StepN(E, k) == IF k = 0 THEN E ELSE StepN(step(E).eng, k - 1)

RECURSIVE StepPrevN(_, _)
\* the engine after k calls of stepPrev()
StepPrevN(E, k) == IF k = 0 THEN E ELSE StepPrevN(stepPrev(E).eng, k - 1)

\* C4: stepPrev() with a non-empty history restores the before snapshot of the
\* most recent event not yet undone and pops exactly that event; k steps that
\* each execute an action, followed by k stepPrevs, return the world to its
\* value before the first of them; with an empty history stepPrev() returns
\* null and changes nothing.
C4_StepPrevIsLifo ==
  /\ executed # <<>> =>
       LET p == stepPrev(Eng)
       IN /\ p.ret = Some(Last(executed).before)
          /\ p.eng.world = Last(executed).before
          /\ p.eng.executed = Front(executed)
          /\ p.eng.queue = <<Last(executed).action>> \o queue
  /\ executed = <<>> => stepPrev(Eng) = [eng |-> Eng, ret |-> None]
  /\ \A k \in 1..Len(queue) :
       LET s == StepN(Eng, k)
           p == StepPrevN(s, k)
       IN Len(s.executed) = Len(executed) + k =>
            /\ p.world = world
            /\ p.executed = executed
            /\ p.stepCounter = stepCounter

\* two actions were stepped and both have been undone
C4_Witness ==
  /\ returned.op = "stepPrev" /\ returned.val # None
  /\ nextId = 3 /\ executed = <<>> /\ Len(queue) = 2
  /\ queue[1].type = "take" /\ queue[2].type = "put"
  /\ world = WorldObjects

\* C5: actions execute first in, first out: a step executes the oldest pending
\* action; the events of the history are in the order their actions were
\* enqueued and no action has two events; once the queue is empty every action
\* enqueued since the reset has its event unless a done ahead of it discarded
\* it; a failed event does not keep later steps from executing.
C5_Fifo ==
  /\ queue # <<>> =>
       LET r == step(Eng)
       IN /\ r.ret # None
          /\ r.ret[1].action = Head(queue)
          /\ \A i \in 1..Len(queue) : Head(queue).id <= queue[i].id
          /\ r.eng.executed = Append(executed, r.ret[1])
  /\ LET all == ExecutedActions \o queue
     IN \A i, j \in 1..Len(all) : i < j => all[i].id < all[j].id
  /\ queue = <<>> =>
       \A i \in 1..(nextId - 1) :
         \/ i \in Ids(ExecutedActions)
         \/ \E k \in 1..Len(executed) :
              executed[k].action.type = "done" /\ executed[k].action.id < i

\* a failed event is followed in the history by the event of the next action
C5_Witness ==
  /\ Len(executed) = 2
  /\ ~executed[1].ok /\ executed[2].ok
  /\ executed[1].action.id = 1 /\ executed[2].action.id = 2
  /\ executed[2].action.type = "move"

\* an action that is neither pending nor in the history stays so until a reset
DiscardedStaysDiscarded ==
  \A i \in 1..(nextId - 1) :
    (i \notin Ids(ExecutedActions \o queue) /\ nextId' >= nextId)
      => i \notin {executed'[k].action.id : k \in 1..Len(executed')}
                    \cup {queue'[k].id : k \in 1..Len(queue')}

\* C6: stepping done always succeeds, leaves the committed world unchanged and
\* empties the pending queue; the next step() returns null, and no event is
\* ever produced for the actions that were behind the done.
C6_DoneEmptiesQueue ==
  /\ [](queue # <<>> /\ Head(queue).type = "done" =>
          LET r == step(Eng)
          IN /\ r.ret # None /\ r.ret[1].ok
             /\ r.ret[1].after = Some(world)
             /\ r.eng.world = world
             /\ r.eng.queue = <<>>
             /\ r.eng.executed = Append(executed, r.ret[1])
             /\ step(r.eng) = [eng |-> r.eng, ret |-> None])
  /\ [][DiscardedStaysDiscarded]_vars

\* a done has just been stepped with two actions behind it
C6_Witness ==
  /\ returned.op = "step" /\ returned.val # None
  /\ returned.val[1].action.type = "done"
  /\ returned.val[1].action.id = 1 /\ nextId = 4
  /\ queue = <<>> /\ Len(executed) = 1

\* C7: from any reachable state reset(w) makes the committed world w (the
\* world the engine was created with when no argument is given), empties the
\* queue and the history and zeroes the step counter, so that a following
\* step() and a following stepPrev() return null.
C7_Reset ==
  /\ \A next \in {None} \cup {Some(w) : w \in ResetWorlds} :
       LET r == reset(Eng, next).eng
       IN /\ r.world = (IF next = None THEN initialWorld ELSE next[1])
          /\ r.queue = <<>> /\ r.executed = <<>> /\ r.stepCounter = 0
          /\ step(r) = [eng |-> r, ret |-> None]
          /\ stepPrev(r) = [eng |-> r, ret |-> None]
  /\ returned.op = "reset" =>
       /\ world = (IF returned.val = None THEN initialWorld ELSE returned.val[1])
       /\ queue = <<>> /\ executed = <<>> /\ stepCounter = 0

\* the engine has just been reset to a world other than the one it was created with
C7_Witness ==
  /\ returned.op = "reset" /\ returned.val = Some(WorldObjects)
  /\ initialWorld = WorldOpen
  /\ world = WorldObjects /\ queue = <<>> /\ executed = <<>>

(***************************************************************************)
(* Properties of the bridge                                                *)
(***************************************************************************)
RuleTypes == {"move", "turnLeft", "take", "put", "buildWall"}

\* C8: for every script run and every sequence of action-primitive calls the
\* script issues, the plan world after the last call equals the committed
\* world obtained by calling step() until the pending queue is empty.
C8_PlanEqualsPlayback ==
  (script = "finished" /\ queue = <<>>) => planWorld = Some(world)

\* the same, for the scripts that do not call done()
C8_WithoutDone ==
  (/\ script = "finished" /\ queue = <<>>
   /\ \A i \in 1..Len(executed) : executed[i].action.type # "done")
    => planWorld = Some(world)

\* the committed world with the robot turned to face d
Facing(d) == [world EXCEPT !.robot.dir = d]

\* C9 as stated: the plan-world rule and the engine's rule give the same
\* world, and the plan world is left unchanged exactly when the engine's rule
\* fails.
C9_Original ==
  \A d \in Direction : \A type \in RuleTypes :
    /\ planRule(type, Facing(d)) = handlers(type, Facing(d)).world
    /\ planRule(type, Facing(d)) = Facing(d) <=> ~handlers(type, Facing(d)).ok

\* C9 (amended): for every world and every action in {move, turnLeft, take,
\* put, buildWall} the plan-world rule gives the world the engine's rule
\* gives; it leaves the world unchanged whenever the engine's rule fails, and
\* besides only for buildWall on an edge that already has a wall, where the
\* engine's rule succeeds and changes nothing either.
C9_PlanRuleIsEngineRule ==
  \A d \in Direction : \A type \in RuleTypes :
    LET w == Facing(d)
        e == handlers(type, w)
    IN /\ planRule(type, w) = e.world
       /\ ~e.ok => planRule(type, w) = w
       /\ (e.ok /\ planRule(type, w) = w) => (type = "buildWall" /\ NearWall(w))

\* the committed world holds a wall built by the robot, stacks and a carried item
C9_Witness ==
  /\ returned.op = "step" /\ returned.val # None
  /\ returned.val[1].action.type = "buildWall"
  /\ NearWall(world) /\ StackHere(world) /\ Carrying(world)

(***************************************************************************)
(* Properties of the execution hook                                        *)
(***************************************************************************)
QueuedRuns == {queue[i].run : i \in 1..Len(queue)}

HistoryRuns == {executed[i].action.run : i \in 1..Len(executed)}

\* a timer of an earlier run has just executed an action
StaleTimerStepped ==
  /\ caller.handler = "timer"
  /\ caller.run < epoch
  /\ returned.op = "step"
  /\ returned.val # None

\* C10: once a reset, a world change or a new run has been requested, no
\* playback timer of an earlier run performs a step, and neither the pending
\* queue nor the history holds an action of an earlier run.
C10_CancelledRunIsGone ==
  /\ ~StaleTimerStepped
  /\ \A n \in QueuedRuns \cup HistoryRuns : n = epoch

\* the part of C10 about the timer alone
C10_NoStaleTimerStep == ~StaleTimerStepped

\* what the hook does keep: the timer it remembers is a live one
TimerRefIsLive == runTimerRef # None => runTimerRef[1] \in timers

(***************************************************************************)
(* Properties of the engine's subscribers                                  *)
(***************************************************************************)
\* step() has just returned an event
Stepped == returned.op = "step" /\ returned.val # None

\* the calls the listeners got from the step() that has just returned, not
\* from a step() a listener made
OuterCalls ==
  LET Outer(n) == n.depth = 1 IN SelectSeq(notified, Outer)

\* C11: while step() notifies its subscribers, a listener that calls step()
\* executes no further action: every listener call made before the outer
\* step() returns is for the one event of that step().
C11_NoReentrantStep ==
  Stepped =>
    \A i \in 1..Len(notified) :
      /\ notified[i].depth = 1
      /\ notified[i].id = returned.val[1].action.id

\* C12: a non-null step() first appends its event to the history and then
\* calls every subscribed listener exactly once with it, in registration
\* order, before it returns; an unsubscribed listener is not called.
C12_AppendThenNotify ==
  Stepped =>
    /\ [i \in 1..Len(OuterCalls) |-> OuterCalls[i].listener] = listeners
    /\ \A i \in 1..Len(OuterCalls) :
         /\ OuterCalls[i].id = returned.val[1].action.id
         /\ OuterCalls[i].inHistory

\* the part of C12 that the engine keeps: each subscribed listener once, in
\* registration order, with the event that step() returns
NotifiedOnceInOrder ==
  Stepped =>
    /\ [i \in 1..Len(OuterCalls) |-> OuterCalls[i].listener] = listeners
    /\ \A i \in 1..Len(OuterCalls) : OuterCalls[i].id = returned.val[1].action.id

\* what the order of emit and push costs: after a successful step() the
\* committed world is the event's `after` snapshot unless a listener undid
EventDescribesWorld ==
  (Stepped /\ returned.val[1].ok) => world = returned.val[1].after[1]

(***************************************************************************)
(* Properties of objects, inventory and walls                              *)
(***************************************************************************)
\* the stacks of w on the robot's cell that hold something
HereStacks(w) ==
  {i \in 1..Len(w.objects) :
     /\ w.objects[i].x = w.robot.x /\ w.objects[i].y = w.robot.y
     /\ w.objects[i].count > 0}

KindsHere(w) == {w.objects[i].kind : i \in HereStacks(w)}

\* w with the goal mark on exactly the stacks of the robot's cell whose kind
\* is in S
Marked(w, S) ==
  [w EXCEPT !.objects =
     [i \in 1..Len(w.objects) |->
        IF i \in HereStacks(w)
          THEN [w.objects[i] EXCEPT !.goalMark = (w.objects[i].kind \in S)]
        ELSE w.objects[i]]]

\* stack i goes before every other stack of the cell: marked before unmarked,
\* then the smaller kind name
Preferred(w, i) ==
  \A j \in HereStacks(w) \ {i} :
    \/ w.objects[i].goalMark /\ ~w.objects[j].goalMark
    \/ /\ w.objects[i].goalMark = w.objects[j].goalMark
       /\ KindRank(w.objects[i].kind) < KindRank(w.objects[j].kind)

\* objs with one unit less on stack i, the stack gone if that was its last
OneLess(objs, i) ==
  IF objs[i].count = 1
    THEN SubSeq(objs, 1, i - 1) \o SubSeq(objs, i + 1, Len(objs))
  ELSE [objs EXCEPT ![i].count = objs[i].count - 1]

InventoryOf(w) == IF w.robot.inventory = None THEN <<>> ELSE w.robot.inventory[1]

\* C13: for every world, with any of the stacks on the robot's cell goal
\* marked, stepping take fails with no_object_here iff no stack on the cell
\* has count > 0; otherwise it takes one unit from the stack that is marked
\* before unmarked and then smallest in kind name, deletes that stack if it
\* reaches 0, appends the kind at the back of the inventory and changes
\* nothing else.
C13_Take ==
  \A S \in SUBSET KindsHere(world) :
    LET w == Marked(world, S)
        r == step(EngWith(w, "take"))
    IN /\ r.ret # None
       /\ ~r.ret[1].ok <=> HereStacks(w) = {}
       /\ ~r.ret[1].ok =>
            /\ r.ret[1].reason = Some("no_object_here")
            /\ r.eng.world = w
       /\ r.ret[1].ok =>
            \E i \in HereStacks(w) :
              /\ Preferred(w, i)
              /\ r.eng.world =
                   [w EXCEPT !.objects = OneLess(w.objects, i),
                             !.robot.inventory =
                               Some(Append(InventoryOf(w), w.objects[i].kind))]

\* a take has just removed the last unit of a marked stack although a stack
\* with a smaller kind name lay on the same cell
C13_Witness ==
  /\ returned.op = "step" /\ returned.val # None
  /\ returned.val[1].action.type = "take"
  /\ returned.val[1].ok
  /\ LET b == returned.val[1].before
     IN \E i, j \in HereStacks(b) :
          /\ b.objects[i].goalMark /\ ~b.objects[j].goalMark
          /\ KindRank(b.objects[j].kind) < KindRank(b.objects[i].kind)
          /\ b.objects[i].count = 1
          /\ Last(InventoryOf(world)) = b.objects[i].kind
          /\ Len(world.objects) = Len(b.objects) - 1

\* the units of `kind` on cell (x,y) of w
RECURSIVE UnitsIn(_, _, _, _)
UnitsIn(objs, x, y, kind) ==
  IF objs = <<>> THEN 0
  ELSE (IF Head(objs).x = x /\ Head(objs).y = y /\ Head(objs).kind = kind
          THEN Head(objs).count ELSE 0)
       + UnitsIn(Tail(objs), x, y, kind)

Cells(w) == (1..w.width) \X (1..w.height)

\* the kinds k of which the event left one unit more on the robot's cell
\* and nothing else different anywhere
DroppedBy(e) ==
  {k \in ObjectKind :
     \A c \in Cells(e.before), j \in ObjectKind :
       UnitsIn(e.after[1].objects, c[1], c[2], j) =
         UnitsIn(e.before.objects, c[1], c[2], j)
           + (IF j = k /\ c = <<e.before.robot.x, e.before.robot.y>> THEN 1 ELSE 0)}

OkTake(e) == e.action.type = "take" /\ e.ok
OkPut(e) == e.action.type = "put" /\ e.ok

\* the kinds picked up by the successful takes of the history, in order
Taken ==
  LET es == SelectSeq(executed, OkTake)
  IN [k \in 1..Len(es) |-> Last(InventoryOf(es[k].after[1]))]

\* the successful puts of the history, in order
Puts == SelectSeq(executed, OkPut)

\* what the robot carried when the history began, then what it picked up
Pool == InventoryOf(executed[1].before) \o Taken

\* C14: the inventory is first in, first out over the steps of the history:
\* the k-th successful put drops the k-th kind of what was carried at the
\* start followed by the kinds of the successful takes (with nothing carried
\* at the start: the kind of the k-th successful take); a put fails, with
\* no_item_to_put, exactly when nothing is carried; a successful put leaves
\* one unit more of the dropped kind on the robot's cell, on the stack of that
\* kind or on a new stack of count 1.
C14_InventoryFifo ==
  executed # <<>> =>
    /\ Len(Puts) <= Len(Pool)
    /\ \A k \in 1..Len(Puts) :
         /\ DroppedBy(Puts[k]) = {Pool[k]}
         /\ Len(Puts[k].after[1].objects) =
              Len(Puts[k].before.objects)
                + (IF UnitsIn(Puts[k].before.objects, Puts[k].before.robot.x,
                              Puts[k].before.robot.y, Pool[k]) = 0
                     THEN 1 ELSE 0)
    /\ \A i \in 1..Len(executed) :
         executed[i].action.type = "put" =>
           /\ ~executed[i].ok <=> InventoryOf(executed[i].before) = <<>>
           /\ ~executed[i].ok => executed[i].reason = Some("no_item_to_put")

\* starting with nothing carried, two takes of different kinds and then a put
\* that dropped the kind taken first
C14_Witness ==
  /\ Len(executed) = 3
  /\ InventoryOf(executed[1].before) = <<>>
  /\ OkTake(executed[1]) /\ OkTake(executed[2]) /\ OkPut(executed[3])
  /\ Taken[1] # Taken[2]
  /\ DroppedBy(executed[3]) = {Taken[1]}

\* the engine after step() with `type` as its only pending action
After(E, type) == step([E EXCEPT !.queue = <<Action(type, "", nextId, 0)>>])

\* the units of `kind` on the robot's cell
UnitsHere(w, kind) == UnitsIn(w.objects, w.robot.x, w.robot.y, kind)

\* the kind a successful take event picked up
TakenBy(e) == Last(InventoryOf(e.after[1]))

\* C15 as claimed: in every reachable state a successful take followed
\* immediately by a put leaves, on the robot's cell, as many units of the
\* taken kind as before the take.
C15_Original ==
  LET t == After(Eng, "take")
      p == After(t.eng, "put")
  IN t.ret[1].ok =>
       UnitsHere(p.eng.world, TakenBy(t.ret[1])) = UnitsHere(world, TakenBy(t.ret[1]))

\* C15: a successful take followed immediately by a put restores the count of
\* the taken kind on the robot's cell exactly when the put drops that kind:
\* when the robot carried nothing before the take, or the oldest item it
\* carried is of the taken kind.  Otherwise the put drops the oldest carried
\* kind and the stack taken from stays one unit short.
C15_TakeThenPut ==
  LET t == After(Eng, "take")
      p == After(t.eng, "put")
      k == TakenBy(t.ret[1])
      oldest == Head(InventoryOf(world) \o <<k>>)
  IN t.ret[1].ok =>
       /\ p.ret[1].ok
       /\ oldest = k => UnitsHere(p.eng.world, k) = UnitsHere(world, k)
       /\ oldest # k =>
            /\ UnitsHere(p.eng.world, k) = UnitsHere(world, k) - 1
            /\ UnitsHere(p.eng.world, oldest) = UnitsHere(world, oldest) + 1

\* with nothing carried, a take has removed the last unit of a stack and the
\* put that followed has made a stack of one unit of that kind on the cell
C15_Witness ==
  /\ Len(executed) >= 2
  /\ LET t == executed[Len(executed) - 1]
         p == executed[Len(executed)]
     IN /\ OkTake(t) /\ OkPut(p)
        /\ InventoryOf(t.before) = <<>>
        /\ UnitsHere(t.before, TakenBy(t)) = 1
        /\ UnitsHere(t.after[1], TakenBy(t)) = 0
        /\ UnitsHere(world, TakenBy(t)) = 1

(***************************************************************************)
(* Properties of the World Builder and of the world's invariants           *)
(***************************************************************************)
WallsUnique(w) ==
  \A i, j \in 1..Len(w.walls) : i # j => w.walls[i] # w.walls[j]

\* C16: no (x, y, direction) triple occurs twice among the walls of a world
\* the World Builder returns.
C16_BuiltWallsUnique == built # None => WallsUnique(built[1])

\* The engine's share of C16: from a world without a repeated triple no step
\* makes one, ...
EngineKeepsWallsUnique == WallsUnique(world)

\* ... and buildWall leaves the walls alone when the robot's edge has a
\* record, and otherwise appends the one record of the robot's cell and edge.
BuildWallAddsOneRecord ==
  LET here == Wall(world.robot.x, world.robot.y, world.robot.dir)
      after == After(Eng, "buildWall").eng.world.walls
  IN IF hasWallAt(world, here.x, here.y, here.dir) THEN after = world.walls
     ELSE after = Append(world.walls, here)

OneStackPerKind(w) ==
  \A i, j \in 1..Len(w.objects) :
    (/\ w.objects[i].x = w.objects[j].x /\ w.objects[i].y = w.objects[j].y
     /\ w.objects[i].kind = w.objects[j].kind) => i = j

PositiveCounts(w) == \A i \in 1..Len(w.objects) : w.objects[i].count > 0

\* the worlds the engine starts from or is reset to satisfy C17's condition
StartsWellStacked ==
  \A w \in InitWorlds \cup ResetWorlds : OneStackPerKind(w) /\ PositiveCounts(w)

\* C17: the committed world has at most one stack per (x, y, kind) and every
\* stack has a count > 0; a take that brings a stack to 0 leaves no stack of
\* that kind on the cell.
C17_StacksWellFormed ==
  /\ StartsWellStacked
  /\ OneStackPerKind(world)
  /\ PositiveCounts(world)
  /\ \A i \in 1..Len(executed) :
       (OkTake(executed[i]) /\ UnitsHere(executed[i].before, TakenBy(executed[i])) = 1)
         => \A k \in 1..Len(executed[i].after[1].objects) :
              LET o == executed[i].after[1].objects[k]
              IN ~(/\ o.x = executed[i].before.robot.x
                   /\ o.y = executed[i].before.robot.y
                   /\ o.kind = TakenBy(executed[i]))

\* a take removed the last unit of a stack, and a later put of the same kind
\* on the same cell made a stack of it again
C17_Witness ==
  \E i, j \in 1..Len(executed) :
    /\ i < j
    /\ OkTake(executed[i])
    /\ UnitsHere(executed[i].before, TakenBy(executed[i])) = 1
    /\ OkPut(executed[j])
    /\ executed[j].before.robot = executed[i].after[1].robot
    /\ DroppedBy(executed[j]) = {TakenBy(executed[i])}
    /\ world = executed[j].after[1]

InBounds(w) ==
  LET Inside(x, y) == 1 <= x /\ x <= w.width /\ 1 <= y /\ y <= w.height
  IN /\ Inside(w.robot.x, w.robot.y)
     /\ \A i \in 1..Len(w.walls) : Inside(w.walls[i].x, w.walls[i].y)
     /\ \A i \in 1..Len(w.objects) : Inside(w.objects[i].x, w.objects[i].y)

\* the worlds the engine starts from or is reset to satisfy C18's condition
StartsInBounds == \A w \in InitWorlds \cup ResetWorlds : InBounds(w)

\* C18: after any sequence of enqueue, step, stepPrev and reset the robot and
\* every wall and object of the committed world are inside
\* [1,width] x [1,height].
C18_InBounds == StartsInBounds /\ InBounds(world)

\* the robot built a wall or put an object down at the border, and a move
\* off the grid was refused
C18_Witness ==
  /\ \E i \in 1..Len(executed) :
       /\ executed[i].action.type = "move"
       /\ executed[i].reason = Some(EngineErrors.OUT_OF_BOUNDS)
  /\ \E i \in 1..Len(executed) :
       executed[i].action.type \in {"buildWall", "put"} /\ executed[i].ok
  /\ world # initialWorld

\* C19: the robot and every wall and object of a world the World Builder
\* returns are inside [1,width] x [1,height] of that world.
C19_BuiltInBounds == built # None => InBounds(built[1])

\* What the builder does keep: the size is at least 1 x 1 whenever the
\* document's is, and every stack it places has a count > 0.
BuiltSizeAndCounts ==
  built # None =>
    /\ ((document[1].cols = None \/ document[1].cols[1] >= 1) => built[1].width >= 1)
    /\ ((document[1].rows = None \/ document[1].rows[1] >= 1) => built[1].height >= 1)
    /\ PositiveCounts(built[1])

\* a document that is inside its grid, with a script that only shrinks the
\* grid
ShrunkByScript ==
  /\ built # None
  /\ InBounds(loadReeborgWorld([document[1] EXCEPT !.onload = <<>>], 0))
  /\ document[1].onload = <<SetWorldSize(1, 1)>>
  /\ ~InBounds(built[1])

(***************************************************************************)
(* Properties of the goal evaluator                                        *)
(***************************************************************************)
AskedAllCarrots == evaluated # None /\ evaluated[1].goal = Some(GoalAllCarrots)

CarrotsHomeButApple ==
  /\ AskedAllCarrots
  /\ ~evaluated[1].satisfied
  /\ observedCount(evaluated[1].state, 5, 5, "carrot") = 1
  /\ observedCount(evaluated[1].state, 1, 1, "carrot") = 0
  /\ observedCount(evaluated[1].state, 1, 1, "apple") = 1

\* the goal of the call evaluateGoal was given, when it was given one
Asked == evaluated # None /\ evaluated[1].goal # None

AskedGoal == evaluated[1].goal[1]

\* the units of a kind on the whole grid
RECURSIVE UnitsOnCells(_, _, _)
UnitsOnCells(objs, cells, kind) ==
  IF cells = {} THEN 0
  ELSE LET c == CHOOSE c \in cells : TRUE
       IN UnitsIn(objs, c[1], c[2], kind) + UnitsOnCells(objs, cells \ {c}, kind)

\* the four ways the objects clause is violated
ObjectsViolated(state, objects) ==
  LET Units(c, k) == UnitsIn(state.objects, c[1], c[2], k)
      Holds(c) == \E k \in ObjectKind : Units(c, k) > 0
      Differs(c, k) ==
        LET val == objects[c][k]
        IN CASE val.tag = "number" -> Units(c, k) # val.n
             [] val.tag = "all" ->
                  Units(c, k) # UnitsOnCells(state.objects, Cells(state), k)
             [] OTHER -> TRUE
  IN \/ \E c \in Cells(state) : Holds(c) /\ c \notin DOMAIN objects
     \/ \E c \in DOMAIN objects, k \in ObjectKind :
          /\ DOMAIN objects[c] # {}
          /\ Units(c, k) > 0 /\ k \notin DOMAIN objects[c]
     \/ \E c \in DOMAIN objects : \E k \in DOMAIN objects[c] : Differs(c, k)
     \/ \E c \in DOMAIN objects : DOMAIN objects[c] = {} /\ Holds(c)

ListedWalls(walls) ==
  LET Letter == [d \in {"north", "east", "south", "west"} |->
                   CASE d = "north" -> "N" [] d = "east" -> "E"
                     [] d = "south" -> "S" [] d = "west" -> "W"]
  IN UNION {{Wall(c[1], c[2], Letter[d]) : d \in walls[c]} : c \in DOMAIN walls}

\* C22: the walls clause holds iff every listed (cell, direction) has a wall
\* record of exactly that cell and direction, and the records the goal does
\* not list do not change the result.
C22_WallsClause ==
  (Asked /\ AskedGoal.walls # None) =>
    LET state == evaluated[1].state
        walls == AskedGoal.walls[1]
        IsListed(w) == w \in ListedWalls(walls)
        listedOnly == [state EXCEPT !.walls = SelectSeq(@, IsListed)]
    IN /\ goalWallsMet(state, walls) <=> ListedWalls(walls) \subseteq WallRecords(state)
       /\ goalWallsMet(listedOnly, walls) <=> goalWallsMet(state, walls)
       /\ evaluated[1].satisfied => ListedWalls(walls) \subseteq WallRecords(state)
       /\ (AskedGoal.objects = None /\ AskedGoal.position = None
           /\ AskedGoal.possible_final_positions = None)
            => (evaluated[1].satisfied
                 <=> ListedWalls(walls) \subseteq WallRecords(state))

\* two listed walls, both present, beside a wall the goal does not list
C22_Witness ==
  /\ Asked /\ AskedGoal.walls # None
  /\ ListedWalls(AskedGoal.walls[1]) = {Wall(5, 5, "N"), Wall(5, 5, "E")}
  /\ Wall(1, 1, "S") \in WallRecords(evaluated[1].state)
  /\ evaluated[1].satisfied

\* the robot stands on the cell of a goal position and, when the position
\* carries a code, faces the way the loader reads that code
StandsAs(state, position) ==
  /\ state.robot.x = Floor(position.x) /\ state.robot.y = Floor(position.y)
  /\ position.orientation # None
       => state.robot.dir = mapOrientationToDir(position.orientation)

\* C23: with a goal position, evaluateGoal is true only if the robot is on
\* the floor of the goal's (x,y) and, when the goal gives an orientation,
\* faces the direction the loader's normalization gives that code.
C23_PositionClause ==
  (Asked /\ AskedGoal.position # None /\ evaluated[1].satisfied)
    => StandsAs(evaluated[1].state, AskedGoal.position[1])

\* the part of C23 that holds: the robot is on the floor of the goal's (x,y)
PositionFloorMet ==
  (Asked /\ AskedGoal.position # None /\ evaluated[1].satisfied)
    => /\ evaluated[1].state.robot.x = Floor(AskedGoal.position[1].x)
       /\ evaluated[1].state.robot.y = Floor(AskedGoal.position[1].y)

\* C24: with a non-empty possible_final_positions, evaluateGoal is true only
\* if some entry has the robot's position and, when the entry carries an
\* orientation, the robot's facing.
C24_FinalPositionsClause ==
  (Asked /\ AskedGoal.possible_final_positions # None
   /\ Len(AskedGoal.possible_final_positions[1]) > 0 /\ evaluated[1].satisfied)
    => \E i \in 1..Len(AskedGoal.possible_final_positions[1]) :
         StandsAs(evaluated[1].state, AskedGoal.possible_final_positions[1][i])

\* the part of C24 that holds: some entry has the robot's position, and an
\* entry without orientation matches on position alone
FinalPositionsCellMet ==
  (Asked /\ AskedGoal.possible_final_positions # None
   /\ Len(AskedGoal.possible_final_positions[1]) > 0)
    => LET ps == AskedGoal.possible_final_positions[1]
           OnCell(i) == /\ evaluated[1].state.robot.x = Floor(ps[i].x)
                        /\ evaluated[1].state.robot.y = Floor(ps[i].y)
       IN /\ goalFinalPositionsMet(evaluated[1].state, ps)
               => \E i \in 1..Len(ps) : OnCell(i)
          /\ (\E i \in 1..Len(ps) : OnCell(i) /\ ps[i].orientation = None)
               => goalFinalPositionsMet(evaluated[1].state, ps)

\* C25: the loader's mapping and the goal evaluator's mapping give every
\* orientation code the same direction.
C25_SameOrientationMapping ==
  (Asked /\ AskedGoal.position # None /\ AskedGoal.position[1].orientation # None)
    => parseDir(AskedGoal.position[1].orientation[1])
         = Some(mapOrientationToDir(AskedGoal.position[1].orientation))

\* the part of C25 that holds: the mappings agree on every number and on
\* every text that is a direction's name
NumbersAndNamesAgree ==
  (Asked /\ AskedGoal.position # None /\ AskedGoal.position[1].orientation # None)
    => LET c == AskedGoal.position[1].orientation[1]
       IN (c.tag = "number" \/ DirOfName(toUpperCase(trim(c.s))) # None)
            => parseDir(c) = Some(mapOrientationToDir(Some(c)))

\* C26: evaluateGoal is the conjunction of the clauses of the goal's fields
\* that are present; a goal block that is absent or is not an object gives
\* true for every world.
C26_Conjunction ==
  evaluated # None =>
    IF evaluated[1].raw.tag # "object" THEN evaluated[1].satisfied
    ELSE LET state == evaluated[1].state
             goal == evaluated[1].raw.goal
         IN evaluated[1].satisfied <=>
              /\ goal.objects # None => ~ObjectsViolated(state, goal.objects[1])
              /\ goal.walls # None
                   => ListedWalls(goal.walls[1]) \subseteq WallRecords(state)
              /\ goal.position # None => goalPositionMet(state, goal.position[1])
              /\ goal.possible_final_positions # None
                   => goalFinalPositionsMet(state, goal.possible_final_positions[1])

\* a goal with all four fields, met
C26_Witness ==
  /\ Asked
  /\ AskedGoal.objects # None /\ AskedGoal.walls # None
  /\ AskedGoal.position # None /\ AskedGoal.possible_final_positions # None
  /\ evaluated[1].satisfied
  /\ evaluated[1].state.objects # <<>>

\* a goal block that is a text, asked of a world with objects
UnparseableGoalMet ==
  /\ evaluated # None /\ evaluated[1].raw = RawText
  /\ evaluated[1].state.objects # <<>> /\ evaluated[1].satisfied

(***************************************************************************)
(* Properties of pacing and of the sensors                                 *)
(***************************************************************************)
\* the delay the hook makes of a pace (useExecution.ts line 104)
DelayOf(pace) == IF pace > 1 THEN pace ELSE 1

\* C27: every action played back is played back with the delay that was in
\* force when it was enqueued, i.e. a think(ms) paces only the actions
\* enqueued after it.
C27_PaceFromCallForward ==
  (script = "finished" /\ playbackPace # None) =>
    \A i \in 1..Len(executed) :
      playbackPace[1] = DelayOf(enqueuedAt[executed[i].action.id])

\* the part of C27 that holds: think(ms) changes neither the plan world nor
\* the queue (nor anything else of the engine)
ThinkLeavesWorldsAndQueue ==
  \A ms \in ThinkValues :
    LET r == set_pace(Eng, Br, ms)
    IN r.eng = Eng /\ r.bridge.planWorld = planWorld

\* an action enqueued before a think(20) was played back
PlayedAfterLaterThink ==
  /\ script = "finished" /\ playbackPace = Some(100)
  /\ \E i \in 1..Len(executed) : enqueuedAt[executed[i].action.id] = 1

\* what sensor `name` answers about the world w alone
Answer(name, w) ==
  Primitive([Eng EXCEPT !.world = w], [Br EXCEPT !.planWorld = None],
            Call(name), 0, 0).ret

\* the pending actions are in the order of the calls that enqueued them
QueueInCallOrder ==
  \A i, j \in 1..Len(queue) : i < j => queue[i].id < queue[j].id

\* C28: a sensor call answers about the plan world when there is one and
\* about the committed world otherwise, appends one trace action with that
\* answer behind everything enqueued before it, and changes neither world;
\* a trace action that was stepped succeeded and left the world as it was.
C28_SensorsTraceOnly ==
  /\ \A name \in SensorNames :
       \A B \in {Br, [Br EXCEPT !.planWorld = None]} :
         LET r == Primitive(Eng, B, Call(name), nextId, 0)
             answer == Answer(name, IF B.planWorld # None THEN B.planWorld[1]
                                    ELSE world)
         IN /\ answer \in {Some(TRUE), Some(FALSE)}
            /\ r.ret = answer
            /\ r.eng.queue =
                 Append(queue, Action("trace", SensorMessage(name, answer[1]),
                                      nextId, 0))
            /\ r.bridge = B
            /\ r.eng.world = world
  /\ QueueInCallOrder
  /\ \A i \in 1..Len(executed) :
       executed[i].action.type = "trace" =>
         /\ executed[i].ok
         /\ executed[i].after = Some(executed[i].before)
         /\ i = Len(executed) => world = executed[i].before

\* at_goal() answered true before any action was played back, from the plan
\* world the move before it had changed, and its trace was stepped later
C28_Witness ==
  /\ initialWorld.robot.x = 1
  /\ \E i \in 1..Len(executed) :
       /\ executed[i].action.type = "trace"
       /\ executed[i].action.message = "at_goal() -> true"
       /\ executed[i].action.id = 2
       /\ executed[i].before.robot.x = 2

\* a sensor answered about a plan world that differs from the committed one
SensedAhead ==
  /\ script = "running" /\ planWorld # None /\ planWorld[1] # world
  /\ queue # <<>> /\ Last(queue).type = "trace"
  /\ Last(queue).message = "wall_in_front() -> true"

(***************************************************************************)
(* Properties of a builder script that throws                              *)
(***************************************************************************)
\* the builder script has a statement that throws
Throws(onload) == \E i \in 1..Len(onload) : onload[i].op = "throw"

\* the statements before the first one that throws
RECURSIVE BeforeThrow(_)
BeforeThrow(onload) ==
  IF onload = <<>> \/ Head(onload).op = "throw" THEN <<>>
  ELSE <<Head(onload)>> \o BeforeThrow(Tail(onload))

\* C30: when a statement of the builder script throws, loadReeborgWorld
\* returns no world (the construction is aborted and the error reaches the
\* caller).
C30_ThrowAborts ==
  (document # None /\ Throws(document[1].onload)) => built = None

\* what happens instead: the world returned is the one of the document
\* whose script ends before the statement that throws
ThrowReturnsPartialWorld ==
  (document # None /\ Throws(document[1].onload)) =>
    /\ built # None
    /\ \E u \in 0..MaxRandom :
         built[1] = loadReeborgWorld(
                      [document[1] EXCEPT !.onload = BeforeThrow(@)], u)

\* a script changed the world and then threw, and the changed world came back
ThrownAfterChange ==
  /\ document # None /\ built # None
  /\ Len(document[1].onload) = 2
  /\ document[1].onload[1].op # "throw" /\ document[1].onload[2].op = "throw"
  /\ \A u \in 0..MaxRandom :
       built[1] # loadReeborgWorld([document[1] EXCEPT !.onload = <<>>], u)

(***************************************************************************)
(* Properties of the playback                                              *)
(***************************************************************************)
\* the goal evaluator's verdict is what the hook shows
GoalEvaluated == ui.statusKind = "info" /\ ui.status \in {"success", "fail"}

\* C29: once handleRun has set the playback timer, and with the user not
\* acting while a timer is live, the ticks step the engine until the queue
\* is exhausted, the timer then stops and the goal has been evaluated on
\* the committed world.
C29_PlaybackDrainsThenEvaluates ==
  (runTimerRef # None) ~> (timers = {} /\ queue = <<>> /\ GoalEvaluated)

\* a tick steps at most one action
OneActionPerTick ==
  [][TimerTick => Len(executed') <= Len(executed) + 1]_vars

\* the timer the hook remembers is cleared in the end
RememberedTimerStops == (runTimerRef # None) ~> (runTimerRef = None)

\* every timer is cleared in the end
EveryTimerStops == (timers # {}) ~> (timers = {})

\* a tick stopped the playback on a failed step, without evaluating the goal
StoppedOnFailedStep ==
  /\ caller.handler = "timer" /\ timers = {} /\ ui.statusKind = "error"
  /\ executed # <<>> /\ ~Last(executed).ok

\* a tick found the queue empty and evaluated the goal
StoppedOnEmptyQueue ==
  /\ caller.handler = "timer" /\ timers = {} /\ queue = <<>> /\ GoalEvaluated

(***************************************************************************)
(* Properties of the builder's wall primitives                             *)
(***************************************************************************)
WallTexts == {"north", "east", "south", "west"}

\* the cell across the edge dir of (x, y)
Across(x, y, dir) ==
  CASE dir = "N" -> <<x, y + 1>> [] dir = "S" -> <<x, y - 1>>
    [] dir = "E" -> <<x + 1, y>> [] dir = "W" -> <<x - 1, y>>

\* the script's last statement, when it ran
LastRan(doc) ==
  IF doc.onload # <<>> /\ ~Throws(doc.onload) THEN Some(Last(doc.onload)) ELSE None

\* C31: remove_wall(dir, x, y) deletes the record (x, y, dir) and the record
\* of the opposite edge on the cell across it and nothing else, so that a
\* move across the edge is blocked in neither direction; add_wall(dir, x, y)
\* adds the record (x, y, dir) unless it is there, and no record of another
\* cell.  Stated of every world the builder returns, for statements on the
\* cells around (1,1), and of the statement a script ended with.
C31_RemoveBothAddOne ==
  built # None =>
    /\ \A t \in WallTexts, x \in 1..2, y \in 1..2 :
         LET d == mapWallDirText(t)
             n == Across(x, y, d)
             removed == RUR(built[1], RemoveWall(t, x, y))
             added == RUR(built[1], AddWall(t, x, y, FALSE))
             Stays(w) == ~(w.x = x /\ w.y = y /\ w.dir = d)
                         /\ ~(w.x = n[1] /\ w.y = n[2] /\ w.dir = Opposite(d))
         IN /\ removed.walls = SelectSeq(built[1].walls, Stays)
            /\ ~isBlockedByWall(removed, x, y, d)
            /\ ~isBlockedByWall(removed, n[1], n[2], Opposite(d))
            /\ added.walls = IF hasWallAt(built[1], x, y, d) THEN built[1].walls
                             ELSE Append(built[1].walls, Wall(x, y, d))
            /\ [removed EXCEPT !.walls = <<>>] = [built[1] EXCEPT !.walls = <<>>]
            /\ [added EXCEPT !.walls = <<>>] = [built[1] EXCEPT !.walls = <<>>]
    /\ \A s \in {RemoveWall("east", 1, 1)} :
         LastRan(document[1]) = Some(s) =>
           /\ ~hasWallAt(built[1], 1, 1, "E") /\ ~hasWallAt(built[1], 2, 1, "W")
           /\ ~isBlockedByWall(built[1], 1, 1, "E")
           /\ ~isBlockedByWall(built[1], 2, 1, "W")
    /\ \A s \in {AddWall("east", 1, 1, FALSE)} :
         (LastRan(document[1]) = Some(s) /\ document[1].walls = <<>>
          /\ Len(document[1].onload) = 1) =>
           built[1].walls = <<Wall(1, 1, "E")>>

\* the document declared the wall on the west edge of (2,1) and the script
\* removed the wall east of (1,1): the world has no wall
C31_Witness ==
  /\ document # None /\ built # None
  /\ document[1].walls = <<WallsEntry(2, 1, <<"west">>)>>
  /\ document[1].onload = <<RemoveWall("east", 1, 1)>>
  /\ built[1].walls = <<>>

\* add_wall alone blocks the move from both sides, by the one record
AddedWallBlocksBothWays ==
  /\ document # None /\ built # None
  /\ document[1].walls = <<>>
  /\ document[1].onload = <<AddWall("east", 1, 1, FALSE)>>
  /\ built[1].walls = <<Wall(1, 1, "E")>>
  /\ isBlockedByWall(built[1], 1, 1, "E") /\ isBlockedByWall(built[1], 2, 1, "W")

(***************************************************************************)
(* Properties of the hook's reset                                          *)
(***************************************************************************)
\* the stacks of the hook's world that carry a range
RangedStacks == {i \in 1..Len(worldProp.objects) : worldProp.objects[i].range # None}

\* the engine's world has a stack with a range that is no longer hidden
Revealed ==
  \E j \in 1..Len(world.objects) :
    world.objects[j].range # None /\ ~world.objects[j].hidden

\* C32: handleReset draws the count of every stack that carries a range
\* anew, so each value of the range is a count the reset can leave, and the
\* stack is hidden again.  Stated of the states in which a run has revealed
\* such a stack.
C32_ResetRedraws ==
  (Revealed /\ ENABLED HandleReset) =>
    \A i \in RangedStacks :
      \A v \in worldProp.objects[i].range[1].min..worldProp.objects[i].range[1].max :
        ENABLED (/\ HandleReset
                 /\ \E j \in 1..Len(world'.objects) :
                      /\ world'.objects[j].x = worldProp.objects[i].x
                      /\ world'.objects[j].y = worldProp.objects[i].y
                      /\ world'.objects[j].kind = worldProp.objects[i].kind
                      /\ world'.objects[j].hidden
                      /\ world'.objects[j].count = v)

\* what handleReset does: the engine and the hook get the hook's world as
\* it is, with the count drawn when it was loaded
ResetRestoresLoadedWorld ==
  [][HandleReset => /\ world' = worldProp
                    /\ ui'.objects = worldProp.objects
                    /\ queue' = <<>> /\ executed' = <<>>]_vars

\* the part of C32 that holds: after handleReset a stack with a range is
\* hidden and its count lies in the range
ResetHidesRanged ==
  caller.handler = "handleReset" =>
    \A j \in 1..Len(world.objects) :
      world.objects[j].range # None =>
        /\ world.objects[j].hidden
        /\ world.objects[j].count >= world.objects[j].range[1].min
        /\ world.objects[j].count <= world.objects[j].range[1].max

\* a run revealed the ranged stack and handleReset hid it again
ResetAfterReveal ==
  /\ caller.handler = "handleReset" /\ RangedStacks # {}
  /\ \A j \in 1..Len(world.objects) : world.objects[j].range # None => world.objects[j].hidden
  /\ \E j \in 1..Len(world.objects) : world.objects[j].range # None

(***************************************************************************)
(* Properties of the engine's history and queue                            *)
(***************************************************************************)
\* C33: the step counter is the number of events in the history, and the
\* i-th event of the history carries the step number i.
C33_StepNumbers ==
  /\ stepCounter = Len(executed)
  /\ \A i \in 1..Len(executed) : executed[i].step = i

\* the second of two events was undone: one event is left, with the counter
\* at 1 and the undone action back in the queue
C33_Witness ==
  /\ returned.op = "stepPrev" /\ returned.val # None
  /\ Len(executed) = 1 /\ stepCounter = 1 /\ executed[1].step = 1
  /\ queue # <<>> /\ Head(queue).id > executed[1].action.id

\* the actions of the history events followed by the pending queue
HistoryThenQueue == [i \in 1..Len(executed) |-> executed[i].action] \o queue

\* the next step() executes a `done`
StepsDone == queue # <<>> /\ Head(queue).type = "done"

\* C34: the actions of the history followed by the queue are the actions
\* enqueued since the last reset, in enqueue order, as long as no `done` is
\* executed: reset starts both empty, enqueue adds the action at the end,
\* and step and stepPrev move one action between history and queue without
\* changing the sequence.
C34_EnqueueOrderKept ==
  [][/\ returned'.op = "reset" => HistoryThenQueue' = <<>>
     /\ returned'.op = "enqueue" =>
          /\ HistoryThenQueue' = Append(HistoryThenQueue, Last(queue'))
          /\ Last(queue').id = nextId
     /\ (returned'.op = "step" /\ ~StepsDone) => HistoryThenQueue' = HistoryThenQueue
     /\ returned'.op = "stepPrev" => HistoryThenQueue' = HistoryThenQueue]_vars

\* the same, read off a state: without a `done` among the actions enqueued,
\* history and queue together hold the actions numbered 1, 2, ... in order
EnqueuedInOrder ==
  (\A i \in 1..Len(HistoryThenQueue) : HistoryThenQueue[i].type # "done") =>
    /\ Len(HistoryThenQueue) = nextId - 1
    /\ \A i \in 1..Len(HistoryThenQueue) : HistoryThenQueue[i].id = i

\* an action was stepped and undone with another one pending behind it:
\* it is back in front of the one enqueued after it
C34_Witness ==
  /\ returned.op = "stepPrev" /\ returned.val # None
  /\ executed # <<>> /\ Len(queue) >= 2
  /\ \A i \in 1..Len(HistoryThenQueue) :
       HistoryThenQueue[i].id = i /\ HistoryThenQueue[i].type # "done"

\* the engine after step() and then stepPrev()
SteppedAndUndone == stepPrev(step(Eng).eng).eng

\* the history the engine has once everything pending has been stepped
RECURSIVE Drain(_)
Drain(E) == IF E.queue = <<>> THEN E.executed ELSE Drain(step(E).eng)

\* C35 as stated: step() and then stepPrev() leave the pending queue as it
\* was, whatever the kind of the action stepped.
C35_Original == queue # <<>> => SteppedAndUndone.queue = queue

\* C35: step() and then stepPrev() leave the pending queue as it was when
\* the action stepped is not a `done`; after a `done` the queue holds the
\* `done` alone, the actions that were behind it being gone.  Either way,
\* stepping everything from there gives the events it would have given.
C35_StepThenUndo ==
  queue # <<>> =>
    /\ SteppedAndUndone.queue =
         IF Head(queue).type = "done" THEN <<Head(queue)>> ELSE queue
    /\ SteppedAndUndone.world = world
    /\ SteppedAndUndone.executed = executed
    /\ Drain(SteppedAndUndone) = Drain(Eng)

\* a `done` was stepped and undone: it is alone in the queue, the action
\* enqueued after it is gone
C35_Witness ==
  /\ returned.op = "stepPrev" /\ returned.val # None
  /\ executed = <<>> /\ Len(queue) = 1
  /\ Head(queue).type = "done" /\ Head(queue).id = 1
  /\ nextId >= 3

\* an action other than `done` was stepped and undone with others pending
UndoneWithOthersPending ==
  /\ returned.op = "stepPrev" /\ returned.val # None
  /\ Len(queue) >= 2 /\ Head(queue).type # "done"
  /\ \A i \in 1..Len(queue) : queue[i].id = Len(executed) + i

(***************************************************************************)
(* Conservation of objects                                                 *)
(***************************************************************************)
\* the units of `kind` in the stacks of the grid of w
OnGrid(w, kind) ==
  LET OfKind(o) == o.kind = kind IN TotalCount(SelectSeq(w.objects, OfKind))

\* the units of `kind` the robot of w carries
InHand(w, kind) ==
  LET OfKind(k) == k = kind IN Len(SelectSeq(InventoryOf(w), OfKind))

\* the step taken executed an action of one of the types
StepOf(types) ==
  /\ returned'.op = "step" /\ returned'.val # None
  /\ returned'.val[1].action.type \in types

\* C36: no step and no undo changes, for any kind, the units on the grid
\* plus the units carried; a successful take moves one unit of one kind
\* from the grid to the robot, a successful put one from the robot to the
\* grid, and every other step, and every failed one, changes neither.
C36_UnitsConserved ==
  [][\A kind \in ObjectKind :
       /\ returned'.op \in {"enqueue", "step", "stepPrev"} =>
            OnGrid(world', kind) + InHand(world', kind)
              = OnGrid(world, kind) + InHand(world, kind)
       /\ (StepOf(ActionType \ {"take", "put"})
           \/ (StepOf(ActionType) /\ ~returned'.val[1].ok)
           \/ returned'.op = "enqueue") =>
            /\ OnGrid(world', kind) = OnGrid(world, kind)
            /\ InHand(world', kind) = InHand(world, kind)
       /\ (StepOf({"take"}) /\ returned'.val[1].ok) =>
            /\ OnGrid(world', kind) <= OnGrid(world, kind)
            /\ OnGrid(world', kind) >= OnGrid(world, kind) - 1
       /\ (StepOf({"put"}) /\ returned'.val[1].ok) =>
            /\ OnGrid(world', kind) >= OnGrid(world, kind)
            /\ OnGrid(world', kind) <= OnGrid(world, kind) + 1]_vars

\* the same read off the history: every event left the units of every kind
\* as they were, from the first event's world on
HistoryConserves ==
  \A i \in 1..Len(executed), kind \in ObjectKind :
    OnGrid(world, kind) + InHand(world, kind)
      = OnGrid(executed[i].before, kind) + InHand(executed[i].before, kind)

\* a take and a put of different kinds were stepped: the carried leaf is on
\* the grid, a taken unit in the hand
C36_Witness ==
  /\ Len(executed) >= 2
  /\ \E i, j \in 1..Len(executed) :
       /\ i < j
       /\ executed[i].action.type = "take" /\ executed[i].ok
       /\ executed[j].action.type = "put" /\ executed[j].ok
  /\ OnGrid(world, "leaf") = 1 /\ InHand(world, "leaf") = 0
  /\ OnGrid(executed[1].before, "leaf") = 0
  /\ InHand(executed[1].before, "leaf") = 1

(***************************************************************************)
(* Properties of wall_in_front() before move()                             *)
(***************************************************************************)
\* wall_in_front() called now, and move() called right after it
AfterWallInFront == Primitive(Eng, Br, Call("wall_in_front"), nextId, 0)

AfterMove ==
  Primitive(AfterWallInFront.eng, AfterWallInFront.bridge, Call("move"),
            nextId + 1, 0)

\* in the history, a move that follows the trace of a wall_in_front() that
\* answered false
MovesAfterNoWall ==
  {i \in 2..Len(executed) :
     /\ executed[i].action.type = "move"
     /\ executed[i - 1].action.type = "trace"
     /\ executed[i - 1].action.message = "wall_in_front() -> false"}

\* C37: when wall_in_front() returns false, the move() called next advances
\* the robot of the plan world, and its event, stepped after all the
\* earlier actions of the run, is ok.
C37_NoWallThenMoveSucceeds ==
  /\ (script = "running" /\ planWorld # None
      /\ AfterWallInFront.ret = Some(FALSE)) =>
       /\ AfterMove.bridge.planWorld[1].robot # planWorld[1].robot
       /\ handlerMove(planWorld[1]).ok
  /\ \A i \in MovesAfterNoWall : executed[i].ok

\* the part of C37 that holds: wall_in_front() is false exactly when no
\* wall blocks the move, so the move can only fail by leaving the grid
NoWallThenOnlyBoundsFail ==
  /\ (script = "running" /\ planWorld # None) =>
       /\ AfterWallInFront.ret[1]
            = isBlockedByWall(planWorld[1], planWorld[1].robot.x,
                              planWorld[1].robot.y, planWorld[1].robot.dir)
       /\ AfterWallInFront.ret = Some(FALSE) =>
            \/ handlerMove(planWorld[1]).ok
               /\ AfterMove.bridge.planWorld[1].robot # planWorld[1].robot
            \/ handlerMove(planWorld[1]).reason = Some(EngineErrors.OUT_OF_BOUNDS)
               /\ AfterMove.bridge.planWorld[1] = planWorld[1]
  /\ \A i \in MovesAfterNoWall :
       executed[i].ok \/ executed[i].reason = Some(EngineErrors.OUT_OF_BOUNDS)

\* wall_in_front() answered false at the edge of the grid and the move
\* after it failed
MoveOffGridAfterNoWall ==
  \E i \in MovesAfterNoWall :
    ~executed[i].ok /\ executed[i].reason = Some(EngineErrors.OUT_OF_BOUNDS)

\* wall_in_front() answered false inside the grid and the move succeeded
MoveAfterNoWall == \E i \in MovesAfterNoWall : executed[i].ok

(***************************************************************************)
(* Properties of what the hook shows                                       *)
(***************************************************************************)
\* a step event was delivered to the hook's subscriber, or one of the
\* handlers that set the view themselves has run
ViewSet ==
  \/ caller.handler \in {"handleReset", "onWorldChanged"}
  \/ /\ caller.handler = "handlePrev"
     /\ returned.op = "stepPrev" /\ returned.val # None
  \/ /\ caller.handler \in {"timer", "handleNext"}
     /\ returned.op = "step" /\ returned.val # None

\* C38: after a step event, handlePrev, handleReset and onWorldChanged the
\* robot, objects and walls the hook exposes are those of the engine's
\* committed world.
C38_ViewIsCommittedWorld ==
  ViewSet => /\ ui.robot = world.robot
             /\ ui.objects = world.objects
             /\ ui.walls = world.walls

\* the part of C38 that holds: robot and objects always agree after these
\* transitions, and so do the walls after all of them but handlePrev
ViewAgreesButWallsAfterPrev ==
  ViewSet => /\ ui.robot = world.robot
             /\ ui.objects = world.objects
             /\ caller.handler # "handlePrev" => ui.walls = world.walls

\* handlePrev undid a buildWall: the engine's world has lost the wall, the
\* hook still shows it
PrevLeavesWall ==
  /\ caller.handler = "handlePrev"
  /\ returned.op = "stepPrev" /\ returned.val # None
  /\ world.walls = <<>> /\ ui.walls # <<>>

(***************************************************************************)
(* Properties of overlapping runs                                          *)
(***************************************************************************)
\* handleRun has just set its playback timer
PlaybackStarts ==
  /\ caller.handler = "handleRun" /\ runTimerRef # None
  /\ runTimerRef[1].run = caller.run

\* the pending actions were all enqueued by the script of one run
OneRunPending == \A i, j \in 1..Len(queue) : queue[i].run = queue[j].run

\* C39: however handleRun invocations overlap, at most one playback timer
\* is live at any time, the queue a playback starts with holds the actions
\* of one script run, and every timer that was set is cleared in the end.
C39_OneTimerOneRun ==
  /\ [](Cardinality(timers) <= 1)
  /\ [](PlaybackStarts => OneRunPending)
  /\ ((timers # {}) ~> (timers = {}))

\* two timers are live, and the queue the second playback started with
\* holds the actions of two runs
TwoTimersTwoRuns ==
  /\ Cardinality(timers) = 2 /\ PlaybackStarts
  /\ \E i, j \in 1..Len(queue) : queue[i].run # queue[j].run

\* what holds: the hook remembers one timer at most, and it is a live one
RememberedTimerIsLive == runTimerRef # None => runTimerRef[1] \in timers

(***************************************************************************)
(* Properties of a script that raises                                      *)
(***************************************************************************)
\* the script of run caller.run has just raised, and handleRun or
\* handleNext has shown the error and returned
Faulted ==
  /\ caller.handler \in {"handleRun", "handleNext"}
  /\ ui.status = "Python error" /\ ui.statusKind = "error"

\* C40: after the script of a run has raised, no handleNext and no playback
\* tick executes an action that script enqueued, unless a new run is
\* started; and the committed world is the one the run started from.
C40_FaultedRunNeverPlayed ==
  [][(/\ Faulted
      /\ epoch' = epoch
      /\ returned'.op = "step" /\ returned'.val # None)
       => returned'.val[1].action.run # caller.run]_vars

\* the part of C40 that holds: the script's actions are only enqueued, so
\* the run that ends with the exception leaves the committed world and the
\* history as they were when its script began
FaultedWorldUntouched ==
  [][(ScriptRun /\ ui.status # "Python error" /\ ui'.status = "Python error")
       => /\ world' = world /\ executed' = executed
          /\ Len(queue') > Len(queue)]_vars

\* handleNext executed the move a faulted script had left in the queue
LeftoverPlayed ==
  /\ caller.handler = "handleNext"
  /\ returned.op = "step" /\ returned.val # None
  /\ returned.val[1].action.type = "move"
  /\ ui.status = "Python error"
  /\ Len(executed) = 1 /\ queue = <<>>

====
